---- MODULE Spec2Model ----
(***************************************************************************)
(* GigUp backend (Flask + SQLite): the verification-code ledger, the       *)
(* session gates and the handlers of routes/auth.py and routes/admin.py.   *)
(*                                                                         *)
(* The variables users and codes are the COMMITTED contents of the tables  *)
(* users and verification_codes (a row's id is its index).  Every request  *)
(* runs on a connection of its own (models/user.py get_db), so a handler    *)
(* that reads, then writes, is split at each commit: other requests may    *)
(* run between its steps.  Writes of one SQLite transaction are applied    *)
(* together at its commit.                                                 *)
(*                                                                         *)
(* A handler's response is a function of the state it reads and of its     *)
(* inputs: each handler has an operator <handler>_response giving it, and  *)
(* the handler's action takes the branch that response belongs to.         *)
(*                                                                         *)
(* Time is counted in whole hours.  A code string is modelled by a number: *)
(* secrets.token_urlsafe draws a fresh token, so the n-th row ever stored  *)
(* carries token n and no two rows share a token.                          *)
(***************************************************************************)
EXTENDS Integers, Sequences, FiniteSets, TLC

VARIABLES
    users,      \* table users: sequence of rows, id = index
    codes,      \* table verification_codes: sequence of rows, id = index
    session,    \* per client: the Flask session cookie (user_id, user_role)
    now,        \* datetime.now(), in hours
    req,        \* per client: the request in flight and its local variables
    successes,  \* history: per code row, how many requests consuming it answered 200
    refused,    \* history: the token of the last consume request answered
                \* "Invalid or expired ...", 0 when there was none
    gigs,          \* table gigs: sequence of rows, id = index
    applications,  \* table applications: sequence of rows, id = index
    contracts,     \* table contracts: sequence of rows, id = index
    recommended,   \* the last answer of get_recommended_gigs, with its query
    computed       \* the arguments and the result of a function applied on its own

market == <<gigs, applications, contracts, recommended, computed>>

vars == <<users, codes, session, now, req, successes, refused,
          gigs, applications, contracts, recommended, computed>>

----------------------------------------------------------------------------
(* Bounds of the model *)

MaxUsers == 2
MaxCodes == 2
MaxGigs == 1
MaxApplications == 2
MaxContracts == 1
MaxOpenGigs == 22

Clients == {"c1", "c2"}
SeqClients == {"c1"}
Times == {0, 1, 23, 24}

(* Program constants *)

VerificationExpiryHours == 24
ResetExpiryHours == 1
MinPasswordLength == 6

AdminEmail == "admin@gigup.com"
AdminPassword == "admin123"
SignupEmails == {"a@x.com"}
Emails == {AdminEmail} \cup SignupEmails
NoEmail == ""
SignupPassword == "secret12"
NewPasswords == {"newpass1", "short"}

RacePasswords == {"newpass1", "newpass2"}
NoPassword == ""
Passwords == {AdminPassword, SignupPassword} \cup NewPasswords \cup RacePasswords

VerificationTypes == {"email", "phone"}
PasswordReset == "password_reset"
NoCode == 0
Tokens == 1..MaxCodes

----------------------------------------------------------------------------
(* Helpers *)

Min(S) == CHOOSE x \in S : \A y \in S : x <= y

PasswordLength(p) ==
    CASE p = "admin123" -> 8
      [] p = "secret12" -> 8
      [] p = "newpass1" -> 8
      [] p = "newpass2" -> 8
      [] p = "short" -> 5
      [] OTHER -> 0

validate_password(p) == PasswordLength(p) >= MinPasswordLength

generate_password_hash(p) == [digest_of |-> p]

check_password_hash(h, p) == h.digest_of = p

Response(status, keys, text) == [status |-> status, keys |-> keys, text |-> text]

Error(status, text) == Response(status, {"error"}, text)

(* No response yet: the handler goes on to its next statement *)
Continue == Response(0, {}, "")

NoSession == [user_id |-> 0, user_role |-> ""]

IdleRequest == [pc |-> "idle", vid |-> 0, uid |-> 0, type |-> "", pw |-> ""]

UserIds == 1..Len(users)

CodeIds == 1..Len(codes)

find_user_by_email(email) ==
    LET S == {u \in UserIds : users[u].email = email}
    IN  IF S = {} THEN 0 ELSE Min(S)

AdminRow ==
    [email |-> AdminEmail, password_hash |-> generate_password_hash(AdminPassword),
     role |-> "admin", is_approved |-> TRUE,
     verified_email |-> TRUE, verified_phone |-> FALSE,
     skills |-> <<>>, rating |-> 0]

NewUserRow(email, password) ==
    [email |-> email, password_hash |-> generate_password_hash(password),
     role |-> "user", is_approved |-> FALSE,
     verified_email |-> FALSE, verified_phone |-> FALSE,
     skills |-> <<>>, rating |-> 0]

(* Variant: writers do not wait for one another *)
WriteLockedByOther_never(c) == FALSE

(* A write needs SQLite's write lock; the transactions that stay open across
   a step are reset_password's, between its two UPDATEs, and sign_contract's,
   between its first UPDATE and its commit. *)
WriteLockedByOther(c) ==
    \E d \in Clients \ {c} : req[d].pc \in {"reset_mark", "sign_signed", "sign_commit"}

----------------------------------------------------------------------------
(* The gates *)

(* Variant: the gate does not look at is_approved *)
auth_required_unchecked(c) ==
    IF session[c].user_id = 0 THEN "unauthenticated"
    ELSE IF session[c].user_id \notin UserIds THEN "not_found"
    ELSE "ok"

auth_required(c) ==
    IF session[c].user_id = 0 THEN "unauthenticated"
    ELSE IF session[c].user_id \notin UserIds THEN "not_found"
    ELSE IF ~users[session[c].user_id].is_approved THEN "pending"
    ELSE "ok"

auth_denied_response(outcome) ==
    CASE outcome = "unauthenticated" -> Error(401, "Authentication required")
      [] outcome = "not_found" -> Error(404, "User account not found")
      [] outcome = "pending" -> Error(403, "Account pending approval")

(* Variant: the gate pops the cached role and leaves the user_id *)
session_after_auth_popping_role(c) ==
    IF auth_required(c) = "not_found"
    THEN [session EXCEPT ![c].user_role = ""]
    ELSE session

session_after_auth(c) ==
    IF auth_required(c) = "not_found"
    THEN [session EXCEPT ![c].user_id = 0]
    ELSE session

(* Variant: the gate does not look at the stored role *)
admin_required_any_role(c) ==
    IF session[c].user_id = 0 THEN "unauthenticated"
    ELSE "ok"

admin_required(c) ==
    IF session[c].user_id = 0 THEN "unauthenticated"
    ELSE IF session[c].user_id \notin UserIds
            \/ users[session[c].user_id].role # "admin" THEN "forbidden"
    ELSE "ok"

admin_denied_response(outcome) ==
    CASE outcome = "unauthenticated" -> Error(401, "Authentication required")
      [] outcome = "forbidden" -> Error(403, "Admin access required")

----------------------------------------------------------------------------
(* The verification ledger *)

(* Variant: the UPDATE that invalidates the earlier codes is missing *)
invalidate_codes_skipped(cs, u, t) == cs

invalidate_codes(cs, u, t) ==
    [i \in 1..Len(cs) |->
        IF cs[i].user_id = u /\ cs[i].type = t /\ ~cs[i].used
        THEN [cs[i] EXCEPT !.used = TRUE]
        ELSE cs[i]]

insert_code(cs, u, t, expires) ==
    Append(cs, [user_id |-> u, code |-> Len(cs) + 1, type |-> t,
                expires_at |-> expires, used |-> FALSE])

generate_verification_code(cs, u, t) ==
    insert_code(invalidate_codes(cs, u, t), u, t, now + VerificationExpiryHours)

(* Variant: the UPDATE flips the flag instead of setting it *)
mark_verification_code_used_toggling(cs, id) ==
    [i \in 1..Len(cs) |->
        IF i = id THEN [cs[i] EXCEPT !.used = ~cs[i].used] ELSE cs[i]]

mark_verification_code_used(cs, id) ==
    [i \in 1..Len(cs) |-> IF i = id THEN [cs[i] EXCEPT !.used = TRUE] ELSE cs[i]]

(* Variant: the SELECT does not filter on user_id *)
select_verification_any_user(u, t, k) ==
    LET S == {i \in CodeIds : /\ codes[i].type = t
                              /\ codes[i].code = k
                              /\ ~codes[i].used
                              /\ codes[i].expires_at > now}
    IN  IF S = {} THEN 0 ELSE Min(S)

select_verification(u, t, k) ==
    LET S == {i \in CodeIds : /\ codes[i].user_id = u
                              /\ codes[i].type = t
                              /\ codes[i].code = k
                              /\ ~codes[i].used
                              /\ codes[i].expires_at > now}
    IN  IF S = {} THEN 0 ELSE Min(S)

(* Variant: the SELECT accepts a token at the hour it expires *)
select_reset_token_inclusive(k) ==
    LET S == {i \in CodeIds : /\ codes[i].code = k
                              /\ codes[i].type = PasswordReset
                              /\ ~codes[i].used
                              /\ codes[i].expires_at >= now}
    IN  IF S = {} THEN 0 ELSE Min(S)

select_reset_token(k) ==
    LET S == {i \in CodeIds : /\ codes[i].code = k
                              /\ codes[i].type = PasswordReset
                              /\ ~codes[i].used
                              /\ codes[i].expires_at > now}
    IN  IF S = {} THEN 0 ELSE Min(S)

(* Variant: a verification sets both flags *)
set_verified_both(us, u, t) ==
    IF u \notin 1..Len(us) THEN us
    ELSE [us EXCEPT ![u].verified_email = TRUE, ![u].verified_phone = TRUE]

set_verified(us, u, t) ==
    IF u \notin 1..Len(us) THEN us
    ELSE IF t = "email" THEN [us EXCEPT ![u].verified_email = TRUE]
    ELSE [us EXCEPT ![u].verified_phone = TRUE]

set_password(us, u, p) ==
    IF u \notin 1..Len(us) THEN us
    ELSE [us EXCEPT ![u].password_hash = generate_password_hash(p)]

is_verified(u, t) ==
    IF t = "email" THEN users[u].verified_email ELSE users[u].verified_phone

----------------------------------------------------------------------------
(* State after construction: init_db seeds the admin account *)

NoRecommendation == [lat |-> 0, lng |-> 0, status |-> 0, recommendations |-> <<>>]

NoComputation == [function |-> "none"]

Init ==
    /\ users = <<AdminRow>>
    /\ codes = <<>>
    /\ session = [c \in Clients |-> NoSession]
    /\ now = 0
    /\ req = [c \in Clients |-> IdleRequest]
    /\ successes = [i \in Tokens |-> 0]
    /\ refused = 0
    /\ gigs = <<>>
    /\ applications = <<>>
    /\ contracts = <<>>
    /\ recommended = NoRecommendation
    /\ computed = NoComputation

----------------------------------------------------------------------------
(* Handlers of routes/auth.py and routes/admin.py *)

(* Variant: the users table has no UNIQUE constraint on email *)
signup_response_without_unique(email, password) ==
    IF ~validate_password(password)
    THEN Error(400, "Password must be at least 6 characters")
    ELSE Response(201, {"message", "user_id", "verification_code", "note"},
                  "User created successfully. Please wait for admin approval.")

signup_response(email, password) ==
    IF ~validate_password(password)
    THEN Error(400, "Password must be at least 6 characters")
    ELSE IF find_user_by_email(email) # 0
    THEN Error(400, "Email already exists")
    ELSE Response(201, {"message", "user_id", "verification_code", "note"},
                  "User created successfully. Please wait for admin approval.")

signup(c, email, password) ==
    /\ UNCHANGED market
    /\ req[c].pc = "idle"
    /\ ~WriteLockedByOther(c)
    /\ UNCHANGED <<session, now, req, successes, refused>>
    /\ IF signup_response(email, password).status = 201
       THEN /\ Len(users) < MaxUsers
            /\ Len(codes) < MaxCodes
            /\ users' = Append(users, NewUserRow(email, password))
            /\ codes' = generate_verification_code(codes, Len(users) + 1, "email")
       ELSE UNCHANGED <<users, codes>>

(* Variant: login does not look at is_approved *)
login_response_without_approval(email, password) ==
    LET u == find_user_by_email(email)
    IN  IF email = NoEmail \/ password = NoPassword
        THEN Error(400, "Email and password required")
        ELSE IF u = 0 \/ ~check_password_hash(users[u].password_hash, password)
        THEN Error(401, "Invalid credentials")
        ELSE Response(200, {"message", "user"}, "Login successful")

login_response(email, password) ==
    LET u == find_user_by_email(email)
    IN  IF email = NoEmail \/ password = NoPassword
        THEN Error(400, "Email and password required")
        ELSE IF u = 0 \/ ~check_password_hash(users[u].password_hash, password)
        THEN Error(401, "Invalid credentials")
        ELSE IF ~users[u].is_approved
        THEN Error(403, "Account pending admin approval")
        ELSE Response(200, {"message", "user"}, "Login successful")

login(c, email, password) ==
    /\ UNCHANGED market
    /\ req[c].pc = "idle"
    /\ UNCHANGED <<users, codes, now, req, successes, refused>>
    /\ IF login_response(email, password).status = 200
       THEN session' = [session EXCEPT ![c] =
                           [user_id |-> find_user_by_email(email),
                            user_role |-> users[find_user_by_email(email)].role]]
       ELSE UNCHANGED session

logout_response == Response(200, {"message"}, "Logged out successfully")

(* Variant: logout pops the cached role and leaves the user_id *)
logout_keeping_user_id(c) ==
    /\ UNCHANGED market
    /\ req[c].pc = "idle"
    /\ session' = [session EXCEPT ![c].user_role = ""]
    /\ UNCHANGED <<users, codes, now, req, successes, refused>>

logout(c) ==
    /\ UNCHANGED market
    /\ req[c].pc = "idle"
    /\ session' = [session EXCEPT ![c] = NoSession]
    /\ UNCHANGED <<users, codes, now, req, successes, refused>>

admin_approve_user_response(c, approved) ==
    IF admin_required(c) # "ok" THEN admin_denied_response(admin_required(c))
    ELSE Response(200, {"message"},
                  IF approved THEN "User approved successfully"
                  ELSE "User revoked successfully")

admin_approve_user(c, uid, approved) ==
    /\ UNCHANGED market
    /\ req[c].pc = "idle"
    /\ UNCHANGED <<codes, session, now, req, successes, refused>>
    /\ IF admin_approve_user_response(c, approved).status = 200
       THEN /\ ~WriteLockedByOther(c)
            /\ users' = [u \in UserIds |->
                            IF u = uid THEN [users[u] EXCEPT !.is_approved = approved]
                            ELSE users[u]]
       ELSE UNCHANGED users

send_verification_response(c, t) ==
    IF auth_required(c) # "ok" THEN auth_denied_response(auth_required(c))
    ELSE IF is_verified(session[c].user_id, t)
    THEN Error(400, IF t = "email" THEN "Email already verified"
                    ELSE "Phone already verified")
    ELSE Response(200, {"message", "verification_code", "note"},
                  "Verification code sent successfully")

send_verification(c, t) ==
    /\ UNCHANGED market
    /\ req[c].pc = "idle"
    /\ session' = session_after_auth(c)
    /\ UNCHANGED <<users, now, req, successes, refused>>
    /\ IF send_verification_response(c, t).status = 200
       THEN /\ Len(codes) < MaxCodes
            /\ ~WriteLockedByOther(c)
            /\ codes' = generate_verification_code(codes, session[c].user_id, t)
       ELSE UNCHANGED codes

InvalidOrExpiredCode == Error(400, "Invalid or expired verification code")

InvalidOrExpiredToken == Error(400, "Invalid or expired reset token")

(* verify_account up to its SELECT: the gate, the input checks, the lookup *)
verify_check_response(c, t, k) ==
    IF auth_required(c) # "ok" THEN auth_denied_response(auth_required(c))
    ELSE IF k = NoCode THEN Error(400, "Verification code required")
    ELSE IF select_verification(session[c].user_id, t, k) = 0
    THEN InvalidOrExpiredCode
    ELSE Continue

(* Variant: a refused attempt invalidates the codes of the user and type *)
verify_check_burning(c, t, k) ==
    /\ UNCHANGED market
    /\ req[c].pc = "idle"
    /\ session' = session_after_auth(c)
    /\ UNCHANGED <<users, now, successes>>
    /\ refused' = IF verify_check_response(c, t, k) = InvalidOrExpiredCode
                  THEN k ELSE refused
    /\ codes' = IF verify_check_response(c, t, k) = InvalidOrExpiredCode
                THEN invalidate_codes(codes, session[c].user_id, t) ELSE codes
    /\ IF verify_check_response(c, t, k) = Continue
       THEN req' = [req EXCEPT ![c] =
                       [pc |-> "verify_mark",
                        vid |-> select_verification(session[c].user_id, t, k),
                        uid |-> session[c].user_id, type |-> t, pw |-> NoPassword]]
       ELSE UNCHANGED req

verify_check(c, t, k) ==
    /\ UNCHANGED market
    /\ req[c].pc = "idle"
    /\ session' = session_after_auth(c)
    /\ UNCHANGED <<users, codes, now, successes>>
    /\ refused' = IF verify_check_response(c, t, k) = InvalidOrExpiredCode
                  THEN k ELSE refused
    /\ IF verify_check_response(c, t, k) = Continue
       THEN req' = [req EXCEPT ![c] =
                       [pc |-> "verify_mark",
                        vid |-> select_verification(session[c].user_id, t, k),
                        uid |-> session[c].user_id, type |-> t, pw |-> NoPassword]]
       ELSE UNCHANGED req

(* verify_account, next step: mark_verification_code_used and its commit *)
verify_mark(c) ==
    /\ UNCHANGED market
    /\ req[c].pc = "verify_mark"
    /\ ~WriteLockedByOther(c)
    /\ codes' = mark_verification_code_used(codes, req[c].vid)
    /\ req' = [req EXCEPT ![c].pc = "verify_flag"]
    /\ UNCHANGED <<users, session, now, successes, refused>>

verify_success_response(t) ==
    Response(200, {"message"},
             IF t = "email" THEN "Email verified successfully"
             ELSE "Phone verified successfully")

(* verify_account, last step: UPDATE users SET verified_<type>, commit, 200 *)
verify_flag(c) ==
    /\ UNCHANGED market
    /\ req[c].pc = "verify_flag"
    /\ ~WriteLockedByOther(c)
    /\ users' = set_verified(users, req[c].uid, req[c].type)
    /\ successes' = [successes EXCEPT ![req[c].vid] = @ + 1]
    /\ req' = [req EXCEPT ![c] = IdleRequest]
    /\ UNCHANGED <<codes, session, now, refused>>

request_password_reset_response(email) ==
    IF email = NoEmail THEN Error(400, "Email required")
    ELSE IF find_user_by_email(email) # 0
    THEN Response(200, {"message", "reset_token", "note"},
                  "Password reset instructions sent")
    ELSE Response(200, {"message"},
                  "If the email exists, reset instructions have been sent")

request_password_reset(c, email) ==
    /\ UNCHANGED market
    /\ req[c].pc = "idle"
    /\ UNCHANGED <<users, session, now, req, successes, refused>>
    /\ IF "reset_token" \in request_password_reset_response(email).keys
       THEN /\ Len(codes) < MaxCodes
            /\ ~WriteLockedByOther(c)
            /\ codes' = insert_code(codes, find_user_by_email(email), PasswordReset,
                                    now + ResetExpiryHours)
       ELSE UNCHANGED codes

(* reset_password up to its SELECT: the input checks and the lookup *)
reset_check_response(k, p) ==
    IF k = NoCode \/ p = NoPassword
    THEN Error(400, "Token and new password required")
    ELSE IF ~validate_password(p)
    THEN Error(400, "Password must be at least 6 characters")
    ELSE IF select_reset_token(k) = 0
    THEN InvalidOrExpiredToken
    ELSE Continue

reset_check(c, k, p) ==
    /\ UNCHANGED market
    /\ req[c].pc = "idle"
    /\ UNCHANGED <<users, codes, session, now, successes>>
    /\ refused' = IF reset_check_response(k, p) = InvalidOrExpiredToken
                  THEN k ELSE refused
    /\ IF reset_check_response(k, p) = Continue
       THEN req' = [req EXCEPT ![c] =
                       [pc |-> "reset_update", vid |-> select_reset_token(k),
                        uid |-> codes[select_reset_token(k)].user_id,
                        type |-> PasswordReset, pw |-> p]]
       ELSE UNCHANGED req

(* reset_password, next step: UPDATE users SET password_hash opens the
   transaction and takes the write lock; nothing is committed yet *)
(* Variant: the password UPDATE is committed on its own, before the token is
   marked *)
reset_update_committing(c) ==
    /\ UNCHANGED market
    /\ req[c].pc = "reset_update"
    /\ ~WriteLockedByOther(c)
    /\ users' = set_password(users, req[c].uid, req[c].pw)
    /\ req' = [req EXCEPT ![c].pc = "reset_mark"]
    /\ UNCHANGED <<codes, session, now, successes, refused>>

reset_update(c) ==
    /\ UNCHANGED market
    /\ req[c].pc = "reset_update"
    /\ ~WriteLockedByOther(c)
    /\ req' = [req EXCEPT ![c].pc = "reset_mark"]
    /\ UNCHANGED <<users, codes, session, now, successes, refused>>

reset_success_response == Response(200, {"message"}, "Password reset successfully")

(* reset_password, last step: mark_verification_code_used commits the
   transaction, the password and the used flag together; 200 *)
reset_mark(c) ==
    /\ UNCHANGED market
    /\ req[c].pc = "reset_mark"
    /\ users' = set_password(users, req[c].uid, req[c].pw)
    /\ codes' = mark_verification_code_used(codes, req[c].vid)
    /\ successes' = [successes EXCEPT ![req[c].vid] = @ + 1]
    /\ req' = [req EXCEPT ![c] = IdleRequest]
    /\ UNCHANGED <<session, now, refused>>

(* The clock *)
Tick(t) ==
    /\ now < t
    /\ now' = t
    /\ UNCHANGED <<users, codes, session, req, successes, refused>>
    /\ UNCHANGED market

----------------------------------------------------------------------------
(* Spec: one client, its requests handled one after the other; the admin
   approves and revokes the accounts that signed up *)

Next ==
    \/ \E c \in SeqClients, e \in SignupEmails, p \in {SignupPassword, "short"} :
          signup(c, e, p)
    \/ \E c \in SeqClients, e \in Emails, p \in Passwords \ {"short"} : login(c, e, p)
    \/ \E c \in SeqClients : logout(c)
    \/ \E c \in SeqClients, u \in 2..MaxUsers, a \in BOOLEAN : admin_approve_user(c, u, a)
    \/ \E c \in SeqClients, t \in VerificationTypes : send_verification(c, t)
    \/ \E c \in SeqClients, t \in VerificationTypes, k \in Tokens \cup {NoCode} :
          verify_check(c, t, k)
    \/ \E c \in SeqClients : verify_mark(c)
    \/ \E c \in SeqClients : verify_flag(c)
    \/ \E c \in SeqClients, e \in Emails \cup {NoEmail} : request_password_reset(c, e)
    \/ \E c \in SeqClients, k \in Tokens \cup {NoCode}, p \in NewPasswords :
          reset_check(c, k, p)
    \/ \E c \in SeqClients : reset_update(c)
    \/ \E c \in SeqClients : reset_mark(c)
    \/ \E t \in Times : Tick(t)

Spec == Init /\ [][Next]_vars

----------------------------------------------------------------------------
(* SpecRace: two clients whose requests are handled concurrently (the Flask
   server is threaded, one SQLite connection per request).  A statement that
   raises takes the handler to its except branch. *)

verify_failure_response == Error(500, "Verification failed")

(* verify_account's except branch: a write raised; what was committed stays *)
verify_fail(c) ==
    /\ UNCHANGED market
    /\ req[c].pc \in {"verify_mark", "verify_flag"}
    /\ req' = [req EXCEPT ![c] = IdleRequest]
    /\ UNCHANGED <<users, codes, session, now, successes, refused>>

reset_failure_response == Error(500, "Password reset failed")

(* reset_password's except branch: a write raised; the open transaction is
   never committed and is rolled back when close_db closes the connection *)
reset_fail(c) ==
    /\ UNCHANGED market
    /\ req[c].pc \in {"reset_update", "reset_mark"}
    /\ req' = [req EXCEPT ![c] = IdleRequest]
    /\ UNCHANGED <<users, codes, session, now, successes, refused>>

NextRace ==
    \/ \E c \in Clients, p \in {AdminPassword} \cup RacePasswords :
          login(c, AdminEmail, p)
    \/ \E c \in Clients, t \in VerificationTypes : send_verification(c, t)
    \/ \E c \in Clients, t \in VerificationTypes, k \in Tokens : verify_check(c, t, k)
    \/ \E c \in Clients : verify_mark(c)
    \/ \E c \in Clients : verify_flag(c)
    \/ \E c \in Clients : verify_fail(c)
    \/ \E c \in Clients : request_password_reset(c, AdminEmail)
    \/ \E c \in Clients, k \in Tokens, p \in RacePasswords : reset_check(c, k, p)
    \/ \E c \in Clients : reset_update(c)
    \/ \E c \in Clients : reset_mark(c)
    \/ \E c \in Clients : reset_fail(c)

SpecRace == Init /\ [][NextRace]_vars

----------------------------------------------------------------------------
(* SpecGate: two clients, and the maintenance script reset_db.py, which
   replaces the database by a fresh one holding only the admin account while
   the clients keep their session cookies. *)

reset_database ==
    /\ \A c \in Clients : req[c].pc = "idle"
    /\ users' = <<AdminRow>>
    /\ codes' = <<>>
    /\ successes' = [i \in Tokens |-> 0]
    /\ refused' = 0
    /\ gigs' = <<>>
    /\ applications' = <<>>
    /\ contracts' = <<>>
    /\ recommended' = NoRecommendation
    /\ UNCHANGED computed
    /\ UNCHANGED <<session, now, req>>

NextGate ==
    \/ \E c \in Clients, e \in Emails : signup(c, e, SignupPassword)
    \/ \E c \in Clients, e \in Emails, p \in {AdminPassword, SignupPassword} :
          login(c, e, p)
    \/ \E c \in Clients : logout(c)
    \/ \E c \in Clients, u \in 1..MaxUsers, a \in BOOLEAN : admin_approve_user(c, u, a)
    \/ \E c \in Clients, t \in VerificationTypes : send_verification(c, t)
    \/ \E c \in Clients, t \in VerificationTypes, k \in Tokens \cup {NoCode} :
          verify_check(c, t, k)
    \/ \E c \in Clients : verify_mark(c)
    \/ \E c \in Clients : verify_flag(c)
    \/ reset_database

SpecGate == Init /\ [][NextGate]_vars

----------------------------------------------------------------------------
(* The marketplace: gigs, applications, contracts (routes/gigs.py,
   routes/contracts.py).  A NULL seeker_id is 0; a signature is modelled by
   its presence. *)

MemberEmails == {"a@x.com", "b@x.com"}

GigLat == 100000

GigLng == 3600000

GigIds == 1..Len(gigs)

ApplicationIds == 1..Len(applications)

ContractIds == 1..Len(contracts)

validate_coordinates(lat, lng) ==
    /\ -9000000 <= lat /\ lat <= 9000000
    /\ -18000000 <= lng /\ lng <= 18000000

NewGigRow(provider, lat, lng, skills) ==
    [provider_id |-> provider, status |-> "open", seeker_id |-> 0,
     location_lat |-> lat, location_lng |-> lng, skills_required |-> skills]

NewApplicationRow(g, seeker) ==
    [gig_id |-> g, seeker_id |-> seeker, status |-> "pending"]

NewContractRow(g, provider, seeker) ==
    [gig_id |-> g, provider_id |-> provider, seeker_id |-> seeker,
     provider_signature |-> FALSE, seeker_signature |-> FALSE,
     status |-> "pending"]

(* UPDATE gigs SET status = ? WHERE id = ?: no row, no change *)
set_gig_status(gs, g, status) ==
    [i \in 1..Len(gs) |-> IF i = g THEN [gs[i] EXCEPT !.status = status] ELSE gs[i]]

set_gig_assignment(gs, g, status, seeker) ==
    [i \in 1..Len(gs) |->
        IF i = g THEN [gs[i] EXCEPT !.status = status, !.seeker_id = seeker]
        ELSE gs[i]]

create_gig_response(c, lat, lng) ==
    IF auth_required(c) # "ok" THEN auth_denied_response(auth_required(c))
    ELSE IF ~validate_coordinates(lat, lng)
    THEN Error(400, "Invalid coordinates")
    ELSE Response(201, {"message", "gig_id"}, "Gig created successfully")

create_gig(c, lat, lng, skills) ==
    /\ req[c].pc = "idle"
    /\ session' = session_after_auth(c)
    /\ UNCHANGED <<users, codes, now, req, successes, refused>>
    /\ UNCHANGED <<applications, contracts, recommended, computed>>
    /\ IF create_gig_response(c, lat, lng).status = 201
       THEN /\ Len(gigs) < MaxGigs
            /\ ~WriteLockedByOther(c)
            /\ gigs' = Append(gigs, NewGigRow(session[c].user_id, lat, lng, skills))
       ELSE UNCHANGED gigs

select_application(g, seeker) ==
    LET S == {a \in ApplicationIds : /\ applications[a].gig_id = g
                                     /\ applications[a].seeker_id = seeker}
    IN  IF S = {} THEN 0 ELSE Min(S)

(* apply_to_gig up to its last SELECT *)
apply_check_response(c, g) ==
    IF auth_required(c) # "ok" THEN auth_denied_response(auth_required(c))
    ELSE IF g \notin GigIds THEN Error(404, "Gig not found")
    ELSE IF gigs[g].status # "open" THEN Error(400, "Gig is no longer available")
    ELSE IF gigs[g].provider_id = session[c].user_id
    THEN Error(400, "Cannot apply to your own gig")
    ELSE IF select_application(g, session[c].user_id) # 0
    THEN Error(400, "Already applied to this gig")
    ELSE Continue

apply_check(c, g) ==
    /\ req[c].pc = "idle"
    /\ session' = session_after_auth(c)
    /\ UNCHANGED <<users, codes, now, successes, refused>>
    /\ UNCHANGED market
    /\ IF apply_check_response(c, g) = Continue
       THEN /\ Len(applications)
                 + Cardinality({d \in Clients : req[d].pc = "apply_insert"})
                 < MaxApplications
            /\ req' = [req EXCEPT ![c] =
                          [pc |-> "apply_insert", vid |-> g,
                           uid |-> session[c].user_id, type |-> "", pw |-> NoPassword]]
       ELSE UNCHANGED req

apply_success_response ==
    Response(201, {"message", "application_id"}, "Application submitted successfully")

(* apply_to_gig, last step: the INSERT and its commit; 201 *)
apply_insert(c) ==
    /\ req[c].pc = "apply_insert"
    /\ ~WriteLockedByOther(c)
    /\ applications' = Append(applications, NewApplicationRow(req[c].vid, req[c].uid))
    /\ req' = [req EXCEPT ![c] = IdleRequest]
    /\ UNCHANGED <<users, codes, session, now, successes, refused>>
    /\ UNCHANGED <<gigs, contracts, recommended, computed>>

(* The row of the SELECT ... FROM applications a JOIN gigs g *)
application_exists(a) ==
    a \in ApplicationIds /\ applications[a].gig_id \in GigIds

(* Variant: the caller is not compared with the gig's provider *)
update_application_status_response_any_user(c, a, status) ==
    IF auth_required(c) # "ok" THEN auth_denied_response(auth_required(c))
    ELSE IF status \notin {"accepted", "rejected"}
    THEN Error(400, "Invalid status. Must be \"accepted\" or \"rejected\"")
    ELSE IF ~application_exists(a) THEN Error(404, "Application not found")
    ELSE Response(200, {"message"},
                  IF status = "accepted" THEN "Application accepted successfully"
                  ELSE "Application rejected successfully")

update_application_status_response(c, a, status) ==
    IF auth_required(c) # "ok" THEN auth_denied_response(auth_required(c))
    ELSE IF status \notin {"accepted", "rejected"}
    THEN Error(400, "Invalid status. Must be \"accepted\" or \"rejected\"")
    ELSE IF ~application_exists(a) THEN Error(404, "Application not found")
    ELSE IF gigs[applications[a].gig_id].provider_id # session[c].user_id
    THEN Error(403, "Unauthorized")
    ELSE Response(200, {"message"},
                  IF status = "accepted" THEN "Application accepted successfully"
                  ELSE "Application rejected successfully")

(* Variant: the other applications on the gig are left as they are *)
accept_application_keeping_siblings(as, a) ==
    [i \in 1..Len(as) |-> IF i = a THEN [as[i] EXCEPT !.status = "accepted"] ELSE as[i]]

accept_application(as, a) ==
    [i \in 1..Len(as) |->
        IF i = a THEN [as[i] EXCEPT !.status = "accepted"]
        ELSE IF as[i].gig_id = as[a].gig_id THEN [as[i] EXCEPT !.status = "rejected"]
        ELSE as[i]]

reject_application(as, a) ==
    [i \in 1..Len(as) |-> IF i = a THEN [as[i] EXCEPT !.status = "rejected"] ELSE as[i]]

(* update_application_status up to its authorisation; the provider and the
   gig of an application are columns that never change, so what the handler
   has read still holds when it writes *)
update_application_check(c, a, status) ==
    /\ req[c].pc = "idle"
    /\ session' = session_after_auth(c)
    /\ UNCHANGED <<users, codes, now, successes, refused>>
    /\ UNCHANGED market
    /\ IF update_application_status_response(c, a, status).status = 200
       THEN /\ status = "accepted" =>
                  Len(contracts)
                     + Cardinality({d \in Clients : /\ req[d].pc = "update_application"
                                                    /\ req[d].type = "accepted"})
                     < MaxContracts
            /\ req' = [req EXCEPT ![c] =
                          [pc |-> "update_application", vid |-> a,
                           uid |-> session[c].user_id, type |-> status,
                           pw |-> NoPassword]]
       ELSE UNCHANGED req

(* update_application_status, its UPDATEs, the INSERT of the contract and the
   commit: one transaction, which holds the write lock from its first UPDATE
   to the commit *)
update_application_commit(c) ==
    /\ req[c].pc = "update_application"
    /\ ~WriteLockedByOther(c)
    /\ req' = [req EXCEPT ![c] = IdleRequest]
    /\ UNCHANGED <<users, codes, session, now, successes, refused, recommended, computed>>
    /\ IF req[c].type = "accepted"
       THEN /\ applications' = accept_application(applications, req[c].vid)
            /\ gigs' = set_gig_assignment(gigs, applications[req[c].vid].gig_id,
                                          "assigned", applications[req[c].vid].seeker_id)
            /\ contracts' = Append(contracts,
                  NewContractRow(applications[req[c].vid].gig_id,
                                 gigs[applications[req[c].vid].gig_id].provider_id,
                                 applications[req[c].vid].seeker_id))
       ELSE /\ applications' = reject_application(applications, req[c].vid)
            /\ UNCHANGED <<gigs, contracts>>

update_application_failure_response == Error(500, "Failed to update application status")

(* update_application_status's except branch: db.rollback() *)
update_application_fail(c) ==
    /\ req[c].pc = "update_application"
    /\ req' = [req EXCEPT ![c] = IdleRequest]
    /\ UNCHANGED <<users, codes, session, now, successes, refused>>
    /\ UNCHANGED market

create_contract_response(c) ==
    IF auth_required(c) # "ok" THEN auth_denied_response(auth_required(c))
    ELSE Response(201, {"message", "contract_id"}, "Contract created")

create_contract(c, g, seeker) ==
    /\ req[c].pc = "idle"
    /\ session' = session_after_auth(c)
    /\ UNCHANGED <<users, codes, now, req, successes, refused>>
    /\ UNCHANGED <<gigs, applications, recommended, computed>>
    /\ IF create_contract_response(c).status = 201
       THEN /\ Len(contracts) < MaxContracts
            /\ ~WriteLockedByOther(c)
            /\ contracts' = Append(contracts, NewContractRow(g, session[c].user_id, seeker))
       ELSE UNCHANGED contracts

(* sign_contract up to the choice of the column to write *)
sign_check_response(c, k, signature) ==
    IF auth_required(c) # "ok" THEN auth_denied_response(auth_required(c))
    ELSE IF ~signature THEN Error(400, "Signature required")
    ELSE IF k \notin ContractIds THEN Error(404, "Contract not found")
    ELSE IF session[c].user_id \notin {contracts[k].provider_id, contracts[k].seeker_id}
    THEN Error(403, "Unauthorized")
    ELSE Continue

sign_check(c, k, signature) ==
    /\ req[c].pc = "idle"
    /\ session' = session_after_auth(c)
    /\ UNCHANGED <<users, codes, now, successes, refused>>
    /\ UNCHANGED market
    /\ IF sign_check_response(c, k, signature) = Continue
       THEN req' = [req EXCEPT ![c] =
                       [pc |-> "sign_update", vid |-> k, uid |-> session[c].user_id,
                        type |-> IF session[c].user_id = contracts[k].provider_id
                                 THEN "provider" ELSE "seeker",
                        pw |-> NoPassword]]
       ELSE UNCHANGED req

(* The contract row as the request's open transaction sees it: the committed
   row with the request's own signature *)
with_signature(row, party) ==
    IF party = "provider" THEN [row EXCEPT !.provider_signature = TRUE]
    ELSE [row EXCEPT !.seeker_signature = TRUE]

(* sign_contract, next step: the UPDATE of the signature opens the
   transaction and takes the write lock; the SELECT after it decides whether
   both parties have signed *)
sign_update(c) ==
    /\ req[c].pc = "sign_update"
    /\ ~WriteLockedByOther(c)
    /\ req' = [req EXCEPT ![c].pc =
                  IF /\ with_signature(contracts[req[c].vid], req[c].type).provider_signature
                     /\ with_signature(contracts[req[c].vid], req[c].type).seeker_signature
                  THEN "sign_signed" ELSE "sign_commit"]
    /\ UNCHANGED <<users, codes, session, now, successes, refused>>
    /\ UNCHANGED market

sign_success_response == Response(200, {"message"}, "Contract signed successfully")

(* sign_contract, both have signed: status signed, gig in_progress, commit *)
(* Variant: the signed transition is left out *)
sign_signed_keeping_status(c) ==
    /\ req[c].pc = "sign_signed"
    /\ contracts' = [contracts EXCEPT ![req[c].vid] = with_signature(@, req[c].type)]
    /\ req' = [req EXCEPT ![c] = IdleRequest]
    /\ UNCHANGED <<users, codes, session, now, successes, refused>>
    /\ UNCHANGED <<gigs, applications, recommended, computed>>

sign_signed(c) ==
    /\ req[c].pc = "sign_signed"
    /\ contracts' = [contracts EXCEPT ![req[c].vid] =
                        [with_signature(@, req[c].type) EXCEPT !.status = "signed"]]
    /\ gigs' = set_gig_status(gigs, contracts[req[c].vid].gig_id, "in_progress")
    /\ req' = [req EXCEPT ![c] = IdleRequest]
    /\ UNCHANGED <<users, codes, session, now, successes, refused>>
    /\ UNCHANGED <<applications, recommended, computed>>

(* sign_contract, the other party has not signed: commit of the signature *)
sign_commit(c) ==
    /\ req[c].pc = "sign_commit"
    /\ contracts' = [contracts EXCEPT ![req[c].vid] = with_signature(@, req[c].type)]
    /\ req' = [req EXCEPT ![c] = IdleRequest]
    /\ UNCHANGED <<users, codes, session, now, successes, refused>>
    /\ UNCHANGED <<gigs, applications, recommended, computed>>

sign_failure_response == Error(500, "Failed to sign contract")

(* sign_contract's except branch: the open transaction is dropped *)
sign_fail(c) ==
    /\ req[c].pc \in {"sign_update", "sign_signed", "sign_commit"}
    /\ req' = [req EXCEPT ![c] = IdleRequest]
    /\ UNCHANGED <<users, codes, session, now, successes, refused>>
    /\ UNCHANGED market

(* complete_contract and cancel_contract up to their UPDATEs *)
contract_party_response(c, k) ==
    IF auth_required(c) # "ok" THEN auth_denied_response(auth_required(c))
    ELSE IF k \notin ContractIds THEN Error(404, "Contract not found")
    ELSE IF session[c].user_id \notin {contracts[k].provider_id, contracts[k].seeker_id}
    THEN Error(403, "Unauthorized")
    ELSE Continue

complete_contract_response(c, k) ==
    IF contract_party_response(c, k) # Continue THEN contract_party_response(c, k)
    ELSE Response(200, {"message"}, "Contract marked as completed")

complete_contract(c, k) ==
    /\ req[c].pc = "idle"
    /\ session' = session_after_auth(c)
    /\ UNCHANGED <<users, codes, now, req, successes, refused>>
    /\ UNCHANGED <<applications, recommended, computed>>
    /\ IF complete_contract_response(c, k).status = 200
       THEN /\ ~WriteLockedByOther(c)
            /\ contracts' = [contracts EXCEPT ![k].status = "completed"]
            /\ gigs' = set_gig_status(gigs, contracts[k].gig_id, "completed")
       ELSE UNCHANGED <<gigs, contracts>>

cancel_contract_response(c, k) ==
    IF contract_party_response(c, k) # Continue THEN contract_party_response(c, k)
    ELSE Response(200, {"message"}, "Contract cancelled")

(* Variant: cancelling clears the signatures *)
cancel_contract_clearing(c, k) ==
    /\ req[c].pc = "idle"
    /\ session' = session_after_auth(c)
    /\ UNCHANGED <<users, codes, now, req, successes, refused>>
    /\ UNCHANGED <<applications, recommended, computed>>
    /\ IF cancel_contract_response(c, k).status = 200
       THEN /\ ~WriteLockedByOther(c)
            /\ contracts' = [contracts EXCEPT ![k].status = "cancelled",
                                               ![k].provider_signature = FALSE,
                                               ![k].seeker_signature = FALSE]
            /\ gigs' = set_gig_assignment(gigs, contracts[k].gig_id, "open", 0)
       ELSE UNCHANGED <<gigs, contracts>>

cancel_contract(c, k) ==
    /\ req[c].pc = "idle"
    /\ session' = session_after_auth(c)
    /\ UNCHANGED <<users, codes, now, req, successes, refused>>
    /\ UNCHANGED <<applications, recommended, computed>>
    /\ IF cancel_contract_response(c, k).status = 200
       THEN /\ ~WriteLockedByOther(c)
            /\ contracts' = [contracts EXCEPT ![k].status = "cancelled"]
            /\ gigs' = set_gig_assignment(gigs, contracts[k].gig_id, "open", 0)
       ELSE UNCHANGED <<gigs, contracts>>

(* Two members have signed up and were approved; the admin and the first
   member are logged in *)
MemberRow(email) == [NewUserRow(email, SignupPassword) EXCEPT !.is_approved = TRUE]

InitGigs ==
    /\ users = <<AdminRow, MemberRow("a@x.com"), MemberRow("b@x.com")>>
    /\ codes = <<[user_id |-> 2, code |-> 1, type |-> "email",
                  expires_at |-> VerificationExpiryHours, used |-> FALSE],
                 [user_id |-> 3, code |-> 2, type |-> "email",
                  expires_at |-> VerificationExpiryHours, used |-> FALSE]>>
    /\ session = [c \in Clients |->
                     IF c = "c1" THEN [user_id |-> 1, user_role |-> "admin"]
                     ELSE [user_id |-> 2, user_role |-> "user"]]
    /\ now = 0
    /\ req = [c \in Clients |-> IdleRequest]
    /\ successes = [i \in Tokens |-> 0]
    /\ refused = 0
    /\ gigs = <<>>
    /\ applications = <<>>
    /\ contracts = <<>>
    /\ recommended = NoRecommendation
    /\ computed = NoComputation

(* SpecGigs: the marketplace handlers of two clients, handled concurrently;
   each client logs in as either member *)
NextGigs ==
    \/ \E c \in Clients, e \in MemberEmails : login(c, e, SignupPassword)
    \/ \E c \in Clients : create_gig(c, GigLat, GigLng, <<>>)
    \/ \E c \in Clients, g \in 1..MaxGigs : apply_check(c, g)
    \/ \E c \in Clients : apply_insert(c)
    \/ \E c \in Clients, a \in 1..MaxApplications, st \in {"accepted", "rejected"} :
          update_application_check(c, a, st)
    \/ \E c \in Clients : update_application_commit(c)
    \/ \E c \in Clients : update_application_fail(c)
    \/ \E c \in Clients, g \in 1..MaxGigs, u \in UserIds : create_contract(c, g, u)
    \/ \E c \in Clients, k \in 1..MaxContracts, sig \in BOOLEAN : sign_check(c, k, sig)
    \/ \E c \in Clients : sign_update(c)
    \/ \E c \in Clients : sign_signed(c)
    \/ \E c \in Clients : sign_commit(c)
    \/ \E c \in Clients : sign_fail(c)
    \/ \E c \in Clients, k \in 1..MaxContracts : complete_contract(c, k)
    \/ \E c \in Clients, k \in 1..MaxContracts : cancel_contract(c, k)

SpecGigs == InitGigs /\ [][NextGigs]_vars

(* SpecContracts: the contract handlers of a provider and a seeker, handled
   concurrently, on contracts made with create_contract *)
NextContracts ==
    \/ \E c \in Clients : create_gig(c, GigLat, GigLng, <<>>)
    \/ \E c \in Clients, g \in 1..MaxGigs, u \in 1..2 : create_contract(c, g, u)
    \/ \E c \in Clients, k \in 1..MaxContracts, sig \in BOOLEAN : sign_check(c, k, sig)
    \/ \E c \in Clients : sign_update(c)
    \/ \E c \in Clients : sign_signed(c)
    \/ \E c \in Clients : sign_commit(c)
    \/ \E c \in Clients : sign_fail(c)
    \/ \E c \in Clients, k \in 1..MaxContracts : complete_contract(c, k)
    \/ \E c \in Clients, k \in 1..MaxContracts : cancel_contract(c, k)

SpecContracts == InitGigs /\ [][NextContracts]_vars

(* SpecApplications: gigs, applications on them and the provider's answers;
   the second client logs in as either member *)
ApplicationStatuses == {"accepted", "rejected", "pending"}

NextApplications ==
    \/ \E e \in MemberEmails : login("c2", e, SignupPassword)
    \/ \E c \in Clients : create_gig(c, GigLat, GigLng, <<>>)
    \/ \E c \in Clients, g \in 1..MaxGigs : apply_check(c, g)
    \/ \E c \in Clients : apply_insert(c)
    \/ \E c \in Clients, a \in 1..MaxApplications, st \in ApplicationStatuses :
          update_application_check(c, a, st)
    \/ \E c \in Clients : update_application_commit(c)
    \/ \E c \in Clients : update_application_fail(c)

SpecApplications == InitGigs /\ [][NextApplications]_vars

----------------------------------------------------------------------------
(* Recommendations (routes/gigs.py get_recommended_gigs, utils/location.py).
   Latitudes and longitudes are in hundred-thousandths of a degree,
   distances in metres, scores in hundredths of a point.  The gigs and the
   seekers of SpecRecommend lie on one meridian, where the haversine formula
   gives R * |dlat| with dlat in radians. *)

EarthRadiusKm == 6371

SearchRadiusKm == 35

RecommendationLimit == 20

Abs(x) == IF x < 0 THEN -x ELSE x

(* Coordinates are counted in hundred-thousandths of a degree, distances in
   whole metres (rounded up), scores in hundredths of a point. *)
Degree == 100000

(* cos of the multiples of 30 degrees from 0 to 180, in thousandths *)
CosTable == <<1000, 866, 500, 0, -500, -866, -1000>>

(* math.cos(radians(x)), in thousandths: exact to the table at the multiples
   of 30 degrees, linear between them *)
cos(x) ==
    LET turn == Abs(x) % (360 * Degree)
        y    == IF turn > 180 * Degree THEN 360 * Degree - turn ELSE turn
        k    == y \div (30 * Degree)
        r    == y % (30 * Degree)
    IN  IF r = 0 THEN CosTable[k + 1]
        ELSE CosTable[k + 1]
               + ((CosTable[k + 2] - CosTable[k + 1]) * r) \div (30 * Degree)

(* sin(radians(x) / 2) ** 2 = (1 - cos x) / 2, in two-thousandths *)
sin_half_squared(x) == 1000 - cos(x)

(* c = 2 * atan2(sqrt(a), sqrt(1 - a)), the angle whose cosine is 1 - 2a,
   for a in units of 1 / (2 * 10^9); the result in coordinate units *)
central_angle(a) ==
    LET cosc == 1000 - a \div 1000000
        k    == CHOOSE j \in 1..6 : CosTable[j] >= cosc /\ cosc >= CosTable[j + 1]
    IN  (k - 1) * 30 * Degree
          + ((CosTable[k] - cosc) * 30 * Degree) \div (CosTable[k] - CosTable[k + 1])

(* R * c for c in coordinate units, in metres rounded up: pi / 180 is taken
   as 71 / 4068 (= 355 / (113 * 180)); the product is formed in two parts to
   stay within 32 bits *)
arc_length(c) ==
    LET num == (EarthRadiusKm * 71) % (4068 * 100)
        den == 4068 * 100
        ch  == c \div 1000
        cl  == c % 1000
    IN  ((EarthRadiusKm * 71) \div den) * c
          + 1000 * ((num * ch) \div den)
          + (1000 * ((num * ch) % den) + num * cl + den - 1) \div den

(* Variant: dlon is formed as the sum of the two longitudes *)
haversine_distance_adding_longitudes(lat1, lon1, lat2, lon2) ==
    LET dlat     == lat2 - lat1
        dlon     == lon2 + lon1
        lon_part == cos(lat1) * cos(lat2) * sin_half_squared(dlon)
        a        == sin_half_squared(dlat) * 1000000 + lon_part
        c        == IF lon_part = 0 THEN Abs(dlat) ELSE central_angle(a)
    IN  arc_length(c)

(* With dlon = 0 (or a pole) the second summand of a vanishes and
   c = 2 * atan2(|sin(dlat/2)|, |cos(dlat/2)|) = |dlat| *)
haversine_distance(lat1, lon1, lat2, lon2) ==
    LET dlat     == lat2 - lat1
        dlon     == lon2 - lon1
        lon_part == cos(lat1) * cos(lat2) * sin_half_squared(dlon)
        a        == sin_half_squared(dlat) * 1000000 + lon_part
        c        == IF lon_part = 0 THEN Abs(dlat) ELSE central_angle(a)
    IN  arc_length(c)

(* round(x, 2) of num / den hundredths, to the nearest hundredth *)
round_hundredths(num, den) == (2 * num + den) \div (2 * den)

(* A skills string is the sequence of its characters, each a letter or the
   comma; NULL and the empty string are both the empty sequence *)
Comma == ","

lower_char(ch) == IF ch = "A" THEN "a" ELSE IF ch = "B" THEN "b" ELSE ch

(* str.lower() *)
lower(s) == [i \in 1..Len(s) |-> lower_char(s[i])]

(* str.split(','): a string without a comma is its own single part *)
RECURSIVE split(_)
split(s) ==
    LET commas == {i \in 1..Len(s) : s[i] = Comma}
    IN  IF commas = {} THEN <<s>>
        ELSE <<SubSeq(s, 1, Min(commas) - 1)>>
               \o split(SubSeq(s, Min(commas) + 1, Len(s)))

(* Variant: the strings are split without lower() *)
skill_set_case_sensitive(text) == {split(text)[i] : i \in 1..Len(split(text))}

(* set(text.lower().split(',')) *)
skill_set(text) == {split(lower(text))[i] : i \in 1..Len(split(lower(text)))}

(* The four summands of the score, each a fraction num / den of hundredths
   of a point *)

(* Variant: the overlap is computed as soon as one of the two strings is
   not empty *)
skills_score_either(seeker, gig) ==
    LET seeker_skills == skill_set(seeker.skills)
        gig_skills    == skill_set(gig.skills_required)
    IN  IF seeker.skills # <<>> \/ gig.skills_required # <<>>
        THEN IF gig_skills # {}
             THEN [num |-> 5000 * Cardinality(seeker_skills \cap gig_skills),
                   den |-> Cardinality(gig_skills)]
             ELSE [num |-> 0, den |-> 1]
        ELSE [num |-> 2500, den |-> 1]

(* Skills match (50%) *)
skills_score(seeker, gig) ==
    LET seeker_skills == skill_set(seeker.skills)
        gig_skills    == skill_set(gig.skills_required)
    IN  IF seeker.skills # <<>> /\ gig.skills_required # <<>>
        THEN IF gig_skills # {}
             THEN [num |-> 5000 * Cardinality(seeker_skills \cap gig_skills),
                   den |-> Cardinality(gig_skills)]
             ELSE [num |-> 0, den |-> 1]
        ELSE [num |-> 2500, den |-> 1]

(* Variant: the distance summand is added without the test distance <= 35 *)
distance_score_unguarded(distance) ==
    [num |-> 2000 * (SearchRadiusKm * 1000 - distance),
     den |-> SearchRadiusKm * 1000]

(* Distance score (20%) *)
distance_score(distance) ==
    IF distance <= SearchRadiusKm * 1000
    THEN [num |-> 2000 * (SearchRadiusKm * 1000 - distance),
          den |-> SearchRadiusKm * 1000]
    ELSE [num |-> 0, den |-> 1]

(* Availability (20%) *)
availability_score(gig) ==
    IF gig.status = "open" THEN [num |-> 2000, den |-> 1] ELSE [num |-> 0, den |-> 1]

(* Rating score (10%); a rating is counted in hundredths *)
rating_score(seeker) ==
    IF seeker.rating > 0
    THEN [num |-> IF seeker.rating >= 500 THEN 1000 ELSE 2 * seeker.rating,
          den |-> 1]
    ELSE [num |-> 0, den |-> 1]

calculate_match_score(seeker, gig, distance) ==
    LET s == skills_score(seeker, gig)
        d == distance_score(distance)
        v == availability_score(gig)
        r == rating_score(seeker)
        score ==
            round_hundredths(
                s.num * d.den + d.num * s.den + (v.num + r.num) * s.den * d.den,
                s.den * d.den)
    IN  IF score > 10000 THEN 10000 ELSE score

(* Variant: the radius test is strict *)
within_radius_exclusive(distance) == distance < SearchRadiusKm * 1000

(* Variant: the radius test lets every gig through *)
within_radius_always(distance) == TRUE

within_radius(distance) == distance <= SearchRadiusKm * 1000

(* Variant: the query for the gigs leaves out WHERE g.status = 'open' *)
RECURSIVE recommendations_of_any_status(_, _, _, _)
recommendations_of_any_status(seeker, lat, lng, n) ==
    IF n = 0 THEN <<>>
    ELSE LET before   == recommendations_of_any_status(seeker, lat, lng, n - 1)
             distance == haversine_distance(lat, lng, gigs[n].location_lat,
                                            gigs[n].location_lng)
         IN  IF within_radius(distance)
             THEN Append(before,
                         [gig_id |-> n, distance |-> distance,
                          match_score |-> calculate_match_score(seeker, gigs[n], distance)])
             ELSE before

(* The loop over the open gigs, in id order: the first n gigs *)
RECURSIVE recommendations_of(_, _, _, _)
recommendations_of(seeker, lat, lng, n) ==
    IF n = 0 THEN <<>>
    ELSE LET before   == recommendations_of(seeker, lat, lng, n - 1)
             distance == haversine_distance(lat, lng, gigs[n].location_lat,
                                            gigs[n].location_lng)
         IN  IF gigs[n].status = "open" /\ within_radius(distance)
             THEN Append(before,
                         [gig_id |-> n, distance |-> distance,
                          match_score |-> calculate_match_score(seeker, gigs[n], distance)])
             ELSE before

(* Variant: an entry is put before the entries of equal score *)
RECURSIVE sort_by_match_score_unstable(_)
sort_by_match_score_unstable(list) ==
    IF list = <<>> THEN <<>>
    ELSE LET rest == sort_by_match_score_unstable(SubSeq(list, 1, Len(list) - 1))
             last == list[Len(list)]
             n    == Cardinality({i \in 1..Len(rest) :
                                     rest[i].match_score > last.match_score})
         IN  SubSeq(rest, 1, n) \o <<last>> \o SubSeq(rest, n + 1, Len(rest))

(* list.sort(key = match_score, reverse = True): stable *)
RECURSIVE sort_by_match_score(_)
sort_by_match_score(list) ==
    IF list = <<>> THEN <<>>
    ELSE LET rest == sort_by_match_score(SubSeq(list, 1, Len(list) - 1))
             last == list[Len(list)]
             n    == Cardinality({i \in 1..Len(rest) :
                                     rest[i].match_score >= last.match_score})
         IN  SubSeq(rest, 1, n) \o <<last>> \o SubSeq(rest, n + 1, Len(rest))

(* recommendations[:20] *)
first_entries(list, limit) ==
    IF Len(list) <= limit THEN list ELSE SubSeq(list, 1, limit)

(* request.args.get(name, type=float) of a parameter that is absent; a
   value outside the valid coordinates stands for Python's None *)
None == 99999999

(* Python's truth value of a float or None *)
truthy(x) == x # None /\ x # 0

get_recommended_gigs_response(c, lat, lng) ==
    IF auth_required(c) # "ok" THEN auth_denied_response(auth_required(c))
    ELSE IF ~truthy(lat) \/ ~truthy(lng)
    THEN Error(400, "Location required for recommendations")
    ELSE Response(200, {"recommendations"}, "")

get_recommended_gigs(c, lat, lng) ==
    /\ req[c].pc = "idle"
    /\ session' = session_after_auth(c)
    /\ UNCHANGED <<users, codes, now, req, successes, refused>>
    /\ UNCHANGED <<gigs, applications, contracts, computed>>
    /\ recommended' =
          [lat |-> lat, lng |-> lng,
           status |-> get_recommended_gigs_response(c, lat, lng).status,
           recommendations |->
              IF get_recommended_gigs_response(c, lat, lng).status = 200
              THEN first_entries(
                      sort_by_match_score(
                         recommendations_of(users[session[c].user_id], lat, lng,
                                            Len(gigs))),
                      RecommendationLimit)
              ELSE <<>>]

update_profile_response(c) ==
    IF auth_required(c) # "ok" THEN auth_denied_response(auth_required(c))
    ELSE Response(200, {"message"}, "Profile updated successfully")

(* update_profile with the field skills *)
update_profile(c, skills) ==
    /\ req[c].pc = "idle"
    /\ session' = session_after_auth(c)
    /\ UNCHANGED <<codes, now, req, successes, refused>>
    /\ UNCHANGED market
    /\ IF update_profile_response(c).status = 200
       THEN /\ ~WriteLockedByOther(c)
            /\ users' = [users EXCEPT ![session[c].user_id].skills = skills]
       ELSE UNCHANGED users

(* The gigs the admin has created before the seeker asks: n gigs north of
   GigLat at the offsets of Offsets in turn, those of Outside just beyond the
   radius and asking for the skill the seeker can have, those of Closed
   completed since (create_contract, then complete_contract, by the admin) *)
Offsets == <<0, 10000, 31476, 20000>>

OutsideOffset == 31477

OutsideCandidates == {2, 21}

ClosedCandidates == {4}

SeekerSkills == {<<>>, <<"a">>}

CreatedGigs(n, Outside, Closed) ==
    [i \in 1..n |->
        IF i \in Outside
        THEN NewGigRow(1, GigLat + OutsideOffset, GigLng, <<"a">>)
        ELSE IF i \in Closed
        THEN [NewGigRow(1, GigLat + Offsets[(i % Len(Offsets)) + 1], GigLng, <<>>)
                 EXCEPT !.status = "completed"]
        ELSE NewGigRow(1, GigLat + Offsets[(i % Len(Offsets)) + 1], GigLng, <<>>)]

InitRecommend ==
    /\ users = <<AdminRow>>
    /\ codes = <<>>
    /\ session = [c \in Clients |->
                     IF c = "c1" THEN [user_id |-> 1, user_role |-> "admin"]
                     ELSE NoSession]
    /\ now = 0
    /\ req = [c \in Clients |-> IdleRequest]
    /\ successes = [i \in Tokens |-> 0]
    /\ refused = 0
    /\ gigs \in {CreatedGigs(n, Outside, Closed) :
                    n \in 0..MaxOpenGigs, Outside \in SUBSET OutsideCandidates,
                    Closed \in SUBSET ClosedCandidates}
    /\ applications = <<>>
    /\ contracts = <<>>
    /\ recommended = NoRecommendation
    /\ computed = NoComputation

(* SpecRecommend: a seeker sets its skills and asks for recommendations *)
NextRecommend ==
    \/ \E c \in SeqClients, skills \in SeekerSkills : update_profile(c, skills)
    \/ \E c \in SeqClients, lat \in {None, 0, GigLat}, lng \in {None, GigLng} :
          get_recommended_gigs(c, lat, lng)

SpecRecommend == InitRecommend /\ [][NextRecommend]_vars

(* SpecFlags: every handler that writes the users table, on one client: a
   member signs up, is approved, verifies, updates the profile and resets
   the password *)
NextFlags ==
    \/ \E c \in SeqClients, e \in SignupEmails : signup(c, e, SignupPassword)
    \/ \E c \in SeqClients, e \in Emails, p \in {AdminPassword, SignupPassword, "newpass1"} :
          login(c, e, p)
    \/ \E c \in SeqClients, u \in 2..MaxUsers, a \in BOOLEAN : admin_approve_user(c, u, a)
    \/ \E c \in SeqClients, t \in VerificationTypes : send_verification(c, t)
    \/ \E c \in SeqClients, t \in VerificationTypes, k \in Tokens : verify_check(c, t, k)
    \/ \E c \in SeqClients : verify_mark(c)
    \/ \E c \in SeqClients : verify_flag(c)
    \/ \E c \in SeqClients : verify_fail(c)
    \/ \E c \in SeqClients, skills \in SeekerSkills : update_profile(c, skills)
    \/ \E c \in SeqClients, e \in SignupEmails : request_password_reset(c, e)
    \/ \E c \in SeqClients, k \in Tokens : reset_check(c, k, "newpass1")
    \/ \E c \in SeqClients : reset_update(c)
    \/ \E c \in SeqClients : reset_mark(c)

SpecFlags == Init /\ [][NextFlags]_vars

----------------------------------------------------------------------------
(* SpecCompute: the functions of utils/location.py applied on their own to
   arguments drawn at the start: calculate_match_score to a seeker row, a gig
   row and a distance, haversine_distance to two points. *)

MaxSkillsLength == 3

MaxSeekerSkillsLength == 2

SkillChars == {"a", "A", Comma}

SkillStrings(longest) == UNION {[1..n -> SkillChars] : n \in 0..longest}

(* ratings -1.0, 0, 2.5, 5.0 and 7.0 *)
Ratings == {-100, 0, 250, 500, 700}

GigStatuses == {"open", "completed"}

(* 0 km, 1 km, 17.5 km, 35 km, one metre more, 70 km *)
Distances == {0, 1000, 17500, 35000, 35001, 70000}

Latitudes == {-60 * Degree, 0, Degree, 30 * Degree, 31 * Degree, 90 * Degree}

Longitudes == {-120 * Degree, 0, 36 * Degree, 60 * Degree, 180 * Degree}

(* The arguments of one call: those of calculate_match_score or those of
   haversine_distance *)
InitCompute ==
    /\ users = <<AdminRow>>
    /\ codes = <<>>
    /\ session = [c \in Clients |-> NoSession]
    /\ now = 0
    /\ req = [c \in Clients |-> IdleRequest]
    /\ successes = [i \in Tokens |-> 0]
    /\ refused = 0
    /\ gigs = <<>>
    /\ applications = <<>>
    /\ contracts = <<>>
    /\ recommended = NoRecommendation
    /\ \/ \E ss \in SkillStrings(MaxSeekerSkillsLength), r \in Ratings,
             gs \in SkillStrings(MaxSkillsLength),
             st \in GigStatuses, d \in Distances :
             computed = [function |-> "calculate_match_score",
                         seeker   |-> [skills |-> ss, rating |-> r],
                         gig      |-> [skills_required |-> gs, status |-> st],
                         distance |-> d, done |-> FALSE, result |-> 0]
       \/ \E lat1 \in Latitudes, lon1 \in Longitudes,
             lat2 \in Latitudes, lon2 \in Longitudes :
             computed = [function |-> "haversine_distance",
                         lat1 |-> lat1, lon1 |-> lon1, lat2 |-> lat2, lon2 |-> lon2,
                         done |-> FALSE, result |-> 0]

match_score_call ==
    /\ computed.function = "calculate_match_score"
    /\ ~computed.done
    /\ computed' = [computed EXCEPT
                       !.done = TRUE,
                       !.result = calculate_match_score(computed.seeker, computed.gig,
                                                        computed.distance)]
    /\ UNCHANGED <<users, codes, session, now, req, successes, refused>>
    /\ UNCHANGED <<gigs, applications, contracts, recommended>>

distance_call ==
    /\ computed.function = "haversine_distance"
    /\ ~computed.done
    /\ computed' = [computed EXCEPT
                       !.done = TRUE,
                       !.result = haversine_distance(computed.lat1, computed.lon1,
                                                     computed.lat2, computed.lon2)]
    /\ UNCHANGED <<users, codes, session, now, req, successes, refused>>
    /\ UNCHANGED <<gigs, applications, contracts, recommended>>

NextCompute ==
    \/ match_score_call
    \/ distance_call

SpecCompute == InitCompute /\ [][NextCompute]_vars

----------------------------------------------------------------------------
(* Properties *)

(* C1: when two codes were generated for the same user and type (email or
   phone), a verify request of that user with the first code is answered
   "Invalid or expired verification code"; with the second code it passes
   while that code is the latest, unexpired and not yet consumed, it is
   answered 200 at most once, and after that every verify request with the
   second code is answered "Invalid or expired verification code". *)
C1_ReissueInvalidatesFirstCode ==
    \A c \in Clients : \A i \in CodeIds : \A j \in CodeIds :
        (/\ i < j
         /\ codes[i].type \in VerificationTypes
         /\ codes[j].type = codes[i].type
         /\ codes[j].user_id = codes[i].user_id
         /\ req[c].pc = "idle"
         /\ auth_required(c) = "ok"
         /\ session[c].user_id = codes[i].user_id)
        =>
        /\ verify_check_response(c, codes[i].type, codes[i].code) = InvalidOrExpiredCode
        /\ (/\ successes[j] = 0
            /\ now < codes[j].expires_at
            /\ ~ \E l \in CodeIds : /\ l > j
                                    /\ codes[l].type = codes[j].type
                                    /\ codes[l].user_id = codes[j].user_id)
           => verify_check_response(c, codes[j].type, codes[j].code) = Continue
        /\ successes[j] <= 1
        /\ successes[j] = 1
           => verify_check_response(c, codes[j].type, codes[j].code) = InvalidOrExpiredCode

(* C1 witness: the first of two codes of a user and type was refused and the
   second was consumed with a 200 *)
C1_Witness ==
    \E i \in CodeIds : \E j \in CodeIds :
        /\ i < j
        /\ codes[i].type \in VerificationTypes
        /\ codes[j].type = codes[i].type
        /\ codes[j].user_id = codes[i].user_id
        /\ refused = codes[i].code
        /\ successes[j] = 1

(* C2: every (user, type), type email, phone or password_reset, has at most
   one stored code that is unused and unexpired. *)
C2_AtMostOneValidCodePerUserAndType ==
    \A u \in UserIds : \A t \in VerificationTypes \cup {PasswordReset} :
        Cardinality({i \in CodeIds : /\ codes[i].user_id = u
                                     /\ codes[i].type = t
                                     /\ ~codes[i].used
                                     /\ codes[i].expires_at > now}) <= 1

(* C3: a verify request of session user u for type t with code k passes its
   check iff a stored row has user_id u, type t, code k, used 0 and expires_at
   later than now, and is otherwise answered "Invalid or expired verification
   code"; the request then holds a row of that user and type; once it has
   answered 200 the row is used and u's verified_t flag is set. *)
C3_VerifySucceedsIffValidCode ==
    /\ \A c \in Clients : \A t \in VerificationTypes : \A k \in Tokens :
          (req[c].pc = "idle" /\ auth_required(c) = "ok") =>
             /\ (verify_check_response(c, t, k) = Continue) <=>
                   (\E i \in CodeIds : /\ codes[i].user_id = session[c].user_id
                                       /\ codes[i].type = t
                                       /\ codes[i].code = k
                                       /\ ~codes[i].used
                                       /\ codes[i].expires_at > now)
             /\ verify_check_response(c, t, k) \in {Continue, InvalidOrExpiredCode}
    /\ \A c \in Clients :
          req[c].pc \in {"verify_mark", "verify_flag"} =>
             /\ req[c].vid \in CodeIds
             /\ codes[req[c].vid].user_id = req[c].uid
             /\ codes[req[c].vid].type = req[c].type
    /\ \A i \in CodeIds :
          (codes[i].type \in VerificationTypes /\ successes[i] > 0) =>
             /\ codes[i].used
             /\ is_verified(codes[i].user_id, codes[i].type)

(* C3 witness: two users hold codes, the session user has consumed its own
   with a 200 and the other user's code is still unused *)
C3_Witness ==
    \E c \in Clients : \E i \in CodeIds : \E j \in CodeIds :
        /\ codes[i].type \in VerificationTypes
        /\ codes[j].type \in VerificationTypes
        /\ codes[i].user_id # codes[j].user_id
        /\ session[c].user_id = codes[i].user_id
        /\ successes[i] = 1
        /\ ~codes[j].used

(* C4: a verify or reset_password request that is answered "Invalid or
   expired ..." leaves the tables verification_codes and users as they were:
   no step that changes one of the two tables is such a request. *)
C4_RefusedConsumeChangesNothing ==
    [][(users' # users \/ codes' # codes) =>
          \A c \in Clients : \A k \in Tokens :
             /\ \A t \in VerificationTypes :
                   ~ (verify_check_response(c, t, k) = InvalidOrExpiredCode
                        /\ verify_check(c, t, k))
             /\ \A p \in NewPasswords :
                   ~ (reset_check_response(k, p) = InvalidOrExpiredToken
                        /\ reset_check(c, k, p))]_vars

(* C4 witness: a stored code was consumed once and a later request with it
   was refused *)
C4_Witness ==
    \E i \in CodeIds :
        /\ refused = codes[i].code
        /\ codes[i].used
        /\ successes[i] = 1

(* C5: of the requests that consume one stored code, at most one is answered
   200. *)
C5_CodeConsumedAtMostOnce ==
    \A i \in CodeIds : successes[i] <= 1

(* C6: reset_password commits the new password hash and the token's used flag
   in one step: a step that turns a reset token used is the commit of a
   request holding that token and leaves its user's hash at the hash of the
   request's new password; a step that changes a password hash is such a
   commit and leaves the request's token used; a request that fails leaves
   both tables as they were. *)
C6_ResetPasswordIsAtomic ==
    [][/\ \A i \in CodeIds :
             (codes[i].type = PasswordReset /\ ~codes[i].used /\ codes'[i].used) =>
                \E c \in Clients :
                   /\ req[c].pc = "reset_mark"
                   /\ req[c].vid = i
                   /\ req'[c].pc = "idle"
                   /\ users'[codes[i].user_id].password_hash =
                         generate_password_hash(req[c].pw)
       /\ \A u \in UserIds :
             users'[u].password_hash # users[u].password_hash =>
                \E c \in Clients :
                   /\ req[c].pc = "reset_mark"
                   /\ req[c].uid = u
                   /\ req'[c].pc = "idle"
                   /\ codes[req[c].vid].type = PasswordReset
                   /\ codes[req[c].vid].user_id = u
                   /\ codes'[req[c].vid].used
                   /\ users'[u].password_hash = generate_password_hash(req[c].pw)
       /\ \A c \in Clients :
             reset_fail(c) => UNCHANGED <<users, codes>>]_vars

(* C6 witness: a reset token is used, its user's password is the new one, and
   the other reset token of that user is still unused with a request on it
   in flight *)
C6_Witness ==
    \E i \in CodeIds : \E j \in CodeIds : \E c \in Clients :
        /\ codes[i].type = PasswordReset
        /\ codes[i].used
        /\ successes[i] = 1
        /\ users[codes[i].user_id].password_hash \in
              {generate_password_hash(p) : p \in RacePasswords}
        /\ codes[j].type = PasswordReset
        /\ codes[j].user_id = codes[i].user_id
        /\ ~codes[j].used
        /\ req[c].pc = "reset_mark"
        /\ req[c].vid = j

(* C7: request_password_reset answers every email with the same response,
   whether or not an account has it. *)
C7_ResetRequestHidesAccountExistence ==
    \A e1 \in Emails : \A e2 \in Emails :
        request_password_reset_response(e1) = request_password_reset_response(e2)

(* C8: a code issued at time T expires at T + 24 hours when its type is email
   or phone and at T + 1 hour when it is password_reset; a consume request
   passes its check only at a time strictly before the code's expiry, and at
   or after it is refused even when the code is unused. *)
C8_CodesExpire ==
    /\ [][\A i \in 1..Len(codes') :
             i > Len(codes) =>
                codes'[i].expires_at =
                   now + (IF codes'[i].type = PasswordReset THEN 1 ELSE 24)]_vars
    /\ [](\A i \in CodeIds : \A c \in Clients :
             /\ (/\ codes[i].type \in VerificationTypes
                 /\ req[c].pc = "idle"
                 /\ auth_required(c) = "ok"
                 /\ session[c].user_id = codes[i].user_id) =>
                   /\ verify_check_response(c, codes[i].type, codes[i].code) = Continue
                         => now < codes[i].expires_at
                   /\ now >= codes[i].expires_at
                         => verify_check_response(c, codes[i].type, codes[i].code)
                               = InvalidOrExpiredCode
             /\ codes[i].type = PasswordReset =>
                   /\ reset_check_response(codes[i].code, "newpass1") = Continue
                         => now < codes[i].expires_at
                   /\ now >= codes[i].expires_at
                         => reset_check_response(codes[i].code, "newpass1")
                               = InvalidOrExpiredToken)

(* C8 witness: a code that was never consumed and never invalidated was
   refused at or after its expiry *)
C8_Witness ==
    \E i \in CodeIds :
        /\ ~codes[i].used
        /\ now >= codes[i].expires_at
        /\ refused = codes[i].code

(* C9: a stored code whose used flag is 1 is still stored with used 1 after
   every step. *)
C9_UsedIsMonotonic ==
    [][\A i \in CodeIds :
          codes[i].used => (i \in 1..Len(codes') /\ codes'[i].used)]_vars

(* C9 witness: two interleaved requests have both marked the same code, and
   it is still used *)
C9_Witness ==
    \E i \in CodeIds :
        /\ successes[i] = 2
        /\ codes[i].used

(* C10: a handler behind auth_required runs iff the session holds a user_id
   that resolves to a stored user whose is_approved is set; otherwise the
   request is answered 401 "Authentication required" (no user_id), 404 "User
   account not found" (no stored user) or 403 "Account pending approval"
   (not approved), and the handler body does not run: no table is written
   and no request is started. *)
C10_AuthRequiredGate ==
    /\ [](\A c \in Clients : \A t \in VerificationTypes : \A k \in Tokens \cup {NoCode} :
             LET stored   == \E u \in UserIds : u = session[c].user_id
                 approved == \E u \in UserIds : u = session[c].user_id /\ users[u].is_approved
                 answers  == {send_verification_response(c, t), verify_check_response(c, t, k)}
             IN  /\ session[c].user_id = 0
                       => answers = {Error(401, "Authentication required")}
                 /\ (session[c].user_id # 0 /\ ~stored)
                       => answers = {Error(404, "User account not found")}
                 /\ (stored /\ ~approved)
                       => answers = {Error(403, "Account pending approval")}
                 /\ approved
                       => \A a \in answers : a.status \notin {401, 403, 404})
    /\ [][(<<users, codes, req, successes, refused>>' # <<users, codes, req, successes, refused>>) =>
             \A c \in Clients : \A t \in VerificationTypes : \A k \in Tokens \cup {NoCode} :
                (send_verification(c, t) \/ verify_check(c, t, k)) =>
                   \E u \in UserIds : u = session[c].user_id /\ users[u].is_approved]_vars

(* C10 witness: one session was answered 404 and lost its user_id while
   another holds a stored user that is not approved *)
C10_Witness ==
    \E c \in Clients : \E d \in Clients :
        /\ session[c].user_id = 0
        /\ session[c].user_role # ""
        /\ auth_required(d) = "pending"

(* C11: when a request behind auth_required comes with a session whose
   user_id names no stored user, it is answered 404 "User account not found"
   and the user_id is removed from the session, so that the next request
   behind the gate with that session is answered 401 "Authentication
   required". *)
C11_GateClearsStaleSession ==
    /\ [](\A c \in Clients : \A t \in VerificationTypes :
             /\ (session[c].user_id # 0 /\ session[c].user_id \notin UserIds)
                   => send_verification_response(c, t)
                         = Error(404, "User account not found")
             /\ session[c].user_id = 0
                   => send_verification_response(c, t)
                         = Error(401, "Authentication required"))
    /\ [][\A c \in Clients :
             (/\ session[c].user_id # 0
              /\ session[c].user_id \notin UserIds
              /\ \E t \in VerificationTypes : \E k \in Tokens \cup {NoCode} :
                    send_verification(c, t) \/ verify_check(c, t, k))
             => session'[c].user_id = 0]_vars

(* C11 witness: the database was reset to the admin alone and a session that
   named another user has been through the gate: its user_id is gone, its
   cached role is still there *)
C11_Witness ==
    \E c \in Clients :
        /\ Len(users) = 1
        /\ session[c].user_id = 0
        /\ session[c].user_role = "user"

(* C12: the handler behind admin_required runs iff the session holds a
   user_id whose stored row has role admin; the request is answered 401
   "Authentication required" without user_id and 403 "Admin access required"
   when the user is missing or has another role. *)
C12_AdminRequiredGate ==
    /\ [](\A c \in Clients : \A a \in BOOLEAN :
             LET stored == session[c].user_id \in UserIds
                 admin  == stored /\ users[session[c].user_id].role = "admin"
                 answer == admin_approve_user_response(c, a)
             IN  /\ session[c].user_id = 0
                       => answer = Error(401, "Authentication required")
                 /\ (session[c].user_id # 0 /\ ~admin)
                       => answer = Error(403, "Admin access required")
                 /\ admin => answer.status = 200)
    /\ [][users' # users =>
             \A c \in Clients : \A u \in 1..MaxUsers : \A a \in BOOLEAN :
                admin_approve_user(c, u, a) =>
                   /\ session[c].user_id \in UserIds
                   /\ users[session[c].user_id].role = "admin"]_vars

(* C12 witness: a session of an approved user whose stored role is not admin,
   next to a session of the admin *)
C12_Witness ==
    \E c \in Clients : \E d \in Clients :
        /\ session[c].user_id \in UserIds
        /\ users[session[c].user_id].role = "user"
        /\ users[session[c].user_id].is_approved
        /\ session[d].user_id \in UserIds
        /\ users[session[d].user_id].role = "admin"

(* C13: no handler behind auth_required or admin_required runs for a session
   whose stored user has is_approved false. *)
C13_UnapprovedRunsNoHandler ==
    \A c \in Clients :
        (session[c].user_id \in UserIds /\ ~users[session[c].user_id].is_approved)
        => /\ \A t \in VerificationTypes :
                 send_verification_response(c, t).status = 403
           /\ \A a \in BOOLEAN :
                 admin_approve_user_response(c, a).status # 200

(* C14: every gig has a seeker_id iff its status is assigned, in_progress or
   completed. *)
C14_SeekerSetIffAssigned ==
    \A g \in GigIds :
        (gigs[g].seeker_id # 0) <=>
           (gigs[g].status \in {"assigned", "in_progress", "completed"})

(* C15: when an application on a gig is accepted, every other application on
   that gig is rejected. *)
C15_AcceptedRejectsSiblings ==
    \A a \in ApplicationIds : \A b \in ApplicationIds :
        (/\ a # b
         /\ applications[a].gig_id = applications[b].gig_id
         /\ applications[a].status = "accepted")
        => applications[b].status = "rejected"

(* C16: no two applications have the same gig and the same seeker. *)
C16_OneApplicationPerGigAndSeeker ==
    \A a \in ApplicationIds : \A b \in ApplicationIds :
        (/\ applications[a].gig_id = applications[b].gig_id
         /\ applications[a].seeker_id = applications[b].seeker_id)
        => a = b

(* C17: a contract has status signed only if both signatures are present,
   and every sign request that is answered 200 and leaves both signatures
   present leaves the contract in status signed. *)
C17_SignedIffBothSignatures ==
    /\ [](\A k \in ContractIds :
             contracts[k].status = "signed" =>
                (contracts[k].provider_signature /\ contracts[k].seeker_signature))
    /\ [][\A c \in Clients :
             (/\ req[c].pc \in {"sign_signed", "sign_commit"}
              /\ (sign_signed(c) \/ sign_commit(c))
              /\ contracts'[req[c].vid].provider_signature
              /\ contracts'[req[c].vid].seeker_signature)
             => contracts'[req[c].vid].status = "signed"]_vars

(* C17 witness: both parties have signed a contract on a stored gig: both
   signatures are present, the status is signed and the gig is in_progress *)
C17_Witness ==
    \E k \in ContractIds :
        /\ contracts[k].status = "signed"
        /\ contracts[k].provider_signature
        /\ contracts[k].seeker_signature
        /\ contracts[k].gig_id \in GigIds
        /\ gigs[contracts[k].gig_id].status = "in_progress"

(* C18: a signature that is present on a contract is present after every
   step. *)
C18_SignaturesAreMonotonic ==
    [][\A k \in ContractIds :
          /\ k \in 1..Len(contracts')
          /\ contracts[k].provider_signature => contracts'[k].provider_signature
          /\ contracts[k].seeker_signature => contracts'[k].seeker_signature]_vars

(* C18 witness: a contract with a signature has been cancelled *)
C18_Witness ==
    \E k \in ContractIds :
        /\ contracts[k].provider_signature \/ contracts[k].seeker_signature
        /\ contracts[k].status = "cancelled"

(* C19: when the two parties of a contract sign it in requests handled
   concurrently, the contract never holds both signatures with status
   pending: the step that commits the second signature sets the status to
   signed and the contract's gig to in_progress. *)
C19_ConcurrentSigningReachesSigned ==
    /\ [](\A k \in ContractIds :
             (contracts[k].provider_signature /\ contracts[k].seeker_signature)
                => contracts[k].status # "pending")
    /\ [][\A k \in ContractIds :
             (/\ ~(contracts[k].provider_signature /\ contracts[k].seeker_signature)
              /\ contracts'[k].provider_signature
              /\ contracts'[k].seeker_signature)
             => /\ contracts'[k].status = "signed"
                /\ contracts[k].gig_id \in GigIds
                      => gigs'[contracts[k].gig_id].status = "in_progress"]_vars

(* C19 witness: both parties have a sign request on the same contract in
   flight, each past its first SELECT; one holds the write lock and has seen
   the other's signature missing *)
C19_Witness ==
    \E c \in Clients : \E d \in Clients :
        /\ req[c].pc = "sign_commit"
        /\ req[d].pc = "sign_update"
        /\ req[c].vid = req[d].vid
        /\ req[c].type # req[d].type
        /\ contracts[req[c].vid].status = "pending"

(* C20: get_recommended_gigs answers with at most 20 entries, and no entry
   is a gig farther than 35 km from the seeker's location, also when such a
   gig would have the highest match score. *)
C20_RecommendationsBounded ==
    recommended.status = 200 =>
       /\ Len(recommended.recommendations) <= 20
       /\ \A i \in 1..Len(recommended.recommendations) :
             LET g == recommended.recommendations[i].gig_id
             IN  /\ g \in GigIds
                 /\ Abs(gigs[g].location_lat - recommended.lat) <= 31476

(* C20 witness: more than 20 open gigs lie within 35 km, 20 are returned, and
   a gig just beyond 35 km that is left out would have scored higher than
   every returned one *)
C20_Witness ==
    /\ recommended.status = 200
    /\ Len(recommended.recommendations) = 20
    /\ Len(recommendations_of(users[1], recommended.lat, recommended.lng, Len(gigs))) > 20
    /\ \E g \in GigIds :
          /\ Abs(gigs[g].location_lat - recommended.lat) > 31476
          /\ gigs[g].skills_required # <<>>
          /\ gigs[g].skills_required = users[1].skills
          /\ \A i \in 1..Len(recommended.recommendations) :
                recommended.recommendations[i].gig_id # g
                /\ 7000 > recommended.recommendations[i].match_score

(* C21: the list get_recommended_gigs returns is ordered by match_score,
   highest first; it holds open gigs only; and an open gig within 35 km that
   is left out scores no higher than any of the 20 gigs returned. *)
C21_TopOfEligibleSet ==
    [][(recommended' # recommended /\ recommended'.status = 200) =>
          \A c \in SeqClients :
             LET list     == recommended'.recommendations
                 returned == {list[i].gig_id : i \in 1..Len(list)}
                 score(g) ==
                    calculate_match_score(
                       users[session[c].user_id], gigs[g],
                       haversine_distance(recommended'.lat, recommended'.lng,
                                          gigs[g].location_lat, gigs[g].location_lng))
             IN  /\ \A i, j \in 1..Len(list) :
                       i < j => list[i].match_score >= list[j].match_score
                 /\ \A g \in returned : g \in GigIds /\ gigs[g].status = "open"
                 /\ \A g \in GigIds \ returned :
                       (/\ gigs[g].status = "open"
                        /\ Abs(gigs[g].location_lat - recommended'.lat) <= 31476)
                       => /\ Len(list) = 20
                          /\ \A i \in 1..Len(list) : score(g) <= list[i].match_score
      ]_vars

(* C21 witness: 20 gigs are returned, the first scoring higher than the last,
   an open gig within 35 km is left out, and a completed gig at the seeker's
   own location is left out too *)
C21_Witness ==
    /\ recommended.status = 200
    /\ Len(recommended.recommendations) = 20
    /\ recommended.recommendations[1].match_score
          > recommended.recommendations[20].match_score
    /\ \E g \in GigIds :
          /\ gigs[g].status = "open"
          /\ Abs(gigs[g].location_lat - recommended.lat) <= 31476
          /\ \A i \in 1..20 : recommended.recommendations[i].gig_id # g
    /\ \E g \in GigIds :
          /\ gigs[g].status # "open"
          /\ gigs[g].location_lat = recommended.lat

(* The skill tokens of a string, stated on the string itself: its maximal
   stretches without a comma, in lower case *)
TokensOf(text) ==
    LET low(ch)     == IF ch = "A" THEN "a" ELSE ch
        stretch(i, j) == [k \in 1..(j - i + 1) |-> low(text[i + k - 1])]
    IN  {stretch(i, j) :
            <<i, j>> \in {p \in (1..Len(text) + 1) \X (0..Len(text)) :
                             /\ p[2] >= p[1] - 1
                             /\ \A k \in p[1]..p[2] : text[k] # ","
                             /\ p[1] = 1 \/ text[p[1] - 1] = ","
                             /\ p[2] = Len(text) \/ text[p[2] + 1] = ","}}

(* C22: for every seeker, gig and distance >= 0, calculate_match_score lies
   between 0 and 100; when every skill the gig asks for is one of the
   seeker's, the distance is 0, the gig is open and the rating is 5.0, it is
   exactly 100. *)
C22_ScoreWithinRange ==
    (computed.function = "calculate_match_score" /\ computed.done) =>
       /\ 0 <= computed.result
       /\ computed.result <= 100 * 100
       /\ (/\ computed.seeker.skills # <<>>
           /\ computed.gig.skills_required # <<>>
           /\ TokensOf(computed.gig.skills_required)
                 \subseteq TokensOf(computed.seeker.skills)
           /\ computed.distance = 0
           /\ computed.gig.status = "open"
           /\ computed.seeker.rating = 500)
          => computed.result = 100 * 100

(* C22 witness: the score of a gig asking for "a" and the empty skill, of a
   seeker who wrote "A,", at distance 0 with rating 5.0 has been computed *)
C22_Witness ==
    /\ computed.function = "calculate_match_score"
    /\ computed.done
    /\ computed.seeker.skills = <<"A", ",">>
    /\ computed.gig.skills_required = <<",", "a">>
    /\ computed.distance = 0
    /\ computed.gig.status = "open"
    /\ computed.seeker.rating = 500
    /\ computed.result = 100 * 100

(* The reference sum of C23 for the arguments held in computed, as the
   fraction ReferenceNum / ReferenceDen of hundredths of a point *)
ReferenceDen ==
    35000 * (IF computed.seeker.skills = <<>> \/ computed.gig.skills_required = <<>>
             THEN 1
             ELSE Cardinality(TokensOf(computed.gig.skills_required)))

ReferenceNum ==
    LET seeker_tokens == TokensOf(computed.seeker.skills)
        gig_tokens    == TokensOf(computed.gig.skills_required)
        skills ==
           IF computed.seeker.skills = <<>> \/ computed.gig.skills_required = <<>>
           THEN 2500 * ReferenceDen
           ELSE 5000 * Cardinality(seeker_tokens \cap gig_tokens) * 35000
        distance ==
           IF computed.distance <= 35000
           THEN 2000 * (35000 - computed.distance) * (ReferenceDen \div 35000)
           ELSE 0
        availability ==
           IF computed.gig.status = "open" THEN 2000 * ReferenceDen ELSE 0
        rating ==
           IF computed.seeker.rating <= 0 THEN 0
           ELSE IF computed.seeker.rating > 500 THEN 1000 * ReferenceDen
           ELSE 2 * computed.seeker.rating * ReferenceDen
    IN  skills + distance + availability + rating

(* C23: calculate_match_score equals the reference sum of the four
   components (skills over comma-split lower-cased token sets, 25 when
   either string is empty; distance; availability; rating), capped at 100,
   to the two decimal places the function returns. *)
C23_EqualsReferenceSum ==
    (computed.function = "calculate_match_score" /\ computed.done) =>
       IF ReferenceNum >= 10000 * ReferenceDen
       THEN computed.result = 10000
       ELSE 2 * Abs(computed.result * ReferenceDen - ReferenceNum) <= ReferenceDen

(* C23 witness: a seeker who wrote "A", rated 2.5, and an open gig asking for
   "a" and the empty skill at 1 km: 25 + 19.43 + 20 + 5 *)
C23_Witness ==
    /\ computed.function = "calculate_match_score"
    /\ computed.done
    /\ computed.seeker.skills = <<"A">>
    /\ computed.seeker.rating = 250
    /\ computed.gig.skills_required = <<"a", ",">>
    /\ computed.gig.status = "open"
    /\ computed.distance = 1000
    /\ computed.result = 6943

(* C24: when the seeker's skills or the gig's required skills are empty or
   absent, the skills component is exactly 25 whatever the other string
   holds: the component itself is 25, and the score returned is 25 plus the
   distance, availability and rating components. *)
C24_NeutralSkillsDefault ==
    (/\ computed.function = "calculate_match_score"
     /\ computed.done
     /\ computed.seeker.skills = <<>> \/ computed.gig.skills_required = <<>>)
    => /\ skills_score(computed.seeker, computed.gig).num
             = 2500 * skills_score(computed.seeker, computed.gig).den
       /\ LET distance == IF computed.distance <= 35000
                          THEN 2000 * (35000 - computed.distance) ELSE 0
              availability == IF computed.gig.status = "open" THEN 2000 ELSE 0
              rating == IF computed.seeker.rating <= 0 THEN 0
                        ELSE IF computed.seeker.rating > 500 THEN 1000
                        ELSE 2 * computed.seeker.rating
          IN  2 * Abs(computed.result * 35000
                        - ((2500 + availability + rating) * 35000 + distance))
                 <= 35000

(* C24 witness: a seeker without skills and an open gig at distance 0 asking
   for "a" and "A" have been scored 25 + 20 + 20 *)
C24_Witness ==
    /\ computed.function = "calculate_match_score"
    /\ computed.done
    /\ computed.seeker.skills = <<>>
    /\ computed.seeker.rating = 0
    /\ computed.gig.skills_required = <<"a", ",", "A">>
    /\ computed.gig.status = "open"
    /\ computed.distance = 0
    /\ computed.result = 6500

(* C25: at the 35 km boundary the ranker and the scorer agree.  An open gig
   at exactly 35 km passes the radius filter (it is returned whenever the
   list is not cut at 20) and is scored with a distance component of 0, that
   is 25 + 20 for a gig without required skills and a seeker without
   rating; a gig farther than 35 km is never returned. *)
C25_BoundaryAgreement ==
    recommended.status = 200 =>
       LET list     == recommended.recommendations
           returned == {list[i].gig_id : i \in 1..Len(list)}
           dlat(g)  == Abs(gigs[g].location_lat - recommended.lat)
       IN  /\ \A g \in GigIds :
                 (gigs[g].status = "open" /\ dlat(g) = 31476 /\ Len(list) < 20)
                 => g \in returned
           /\ \A i \in 1..Len(list) :
                 /\ list[i].distance <= 35000
                 /\ dlat(list[i].gig_id) <= 31476
                 /\ (dlat(list[i].gig_id) = 31476
                     /\ gigs[list[i].gig_id].skills_required = <<>>)
                    => list[i].distance = 35000 /\ list[i].match_score = 4500

(* C25 witness: a gig at exactly 35 km is returned with score 45 while a gig
   one step farther away is left out of a list shorter than 20 *)
C25_Witness ==
    /\ recommended.status = 200
    /\ Len(recommended.recommendations) < 20
    /\ \E i \in 1..Len(recommended.recommendations) :
          /\ recommended.recommendations[i].distance = 35000
          /\ recommended.recommendations[i].match_score = 4500
    /\ \E g \in GigIds :
          /\ gigs[g].status = "open"
          /\ Abs(gigs[g].location_lat - recommended.lat) = 31477
          /\ \A i \in 1..Len(recommended.recommendations) :
                recommended.recommendations[i].gig_id # g

(* C26: logout removes the identity from the session: a logout step leaves
   the session without user_id and the tables as they were; a session
   without user_id is answered 401 "Authentication required" by every
   endpoint behind auth_required or admin_required, and logout itself
   answers 200; and a session without user_id gets one again only through a
   login that is answered 200. *)
C26_LogoutDestroysIdentity ==
    /\ [](\A c \in Clients :
             session[c].user_id = 0 =>
                /\ \A t \in VerificationTypes : \A k \in Tokens \cup {NoCode} :
                      /\ send_verification_response(c, t)
                            = Error(401, "Authentication required")
                      /\ verify_check_response(c, t, k)
                            = Error(401, "Authentication required")
                /\ \A a \in BOOLEAN :
                      admin_approve_user_response(c, a)
                         = Error(401, "Authentication required")
                /\ logout_response.status = 200)
    /\ [][\A c \in Clients :
             /\ logout(c) => /\ session'[c].user_id = 0
                             /\ UNCHANGED <<users, codes, gigs, applications, contracts>>
             /\ (session[c].user_id = 0 /\ session'[c].user_id # 0)
                   => \E e \in Emails : \E p \in Passwords :
                         /\ login_response(e, p).status = 200
                         /\ session'[c].user_id = find_user_by_email(e)]_vars

(* C26 witness: a member has been approved, which takes an admin session,
   and no session holds an identity or a cached role any more: the admin
   has logged out *)
C26_Witness ==
    /\ \E u \in UserIds : users[u].is_approved /\ users[u].role = "user"
    /\ \A c \in Clients : session[c] = NoSession

(* C27: no two stored users share an email, whatever signups are made by
   whichever clients; a signup whose email is already stored is answered
   with an error, "Email already exists" when its other fields are valid,
   and a signup step that writes a user row or a code row is one whose email
   was not stored. *)
C27_EmailsAreUnique ==
    /\ [](\A u \in UserIds : \A v \in UserIds :
             u # v => users[u].email # users[v].email)
    /\ [](\A e \in Emails :
             find_user_by_email(e) # 0 =>
                /\ signup_response(e, SignupPassword)
                      = Error(400, "Email already exists")
                /\ signup_response(e, "short").status = 400)
    /\ [][(users' # users \/ codes' # codes) =>
             \A c \in Clients : \A e \in Emails :
                signup(c, e, SignupPassword) => find_user_by_email(e) = 0]_vars

(* C27 witness: a member has signed up and both clients may send the same
   signup again: the email is stored next to the admin's and each is
   stored once *)
C27_Witness ==
    /\ \E u \in UserIds : users[u].email \in SignupEmails
    /\ \A c \in Clients : req[c].pc = "idle"
    /\ \A e \in Emails : Cardinality({u \in UserIds : users[u].email = e}) = 1

(* C28: gigs of equal match_score are returned in the order in which the
   query returned them, which is the order of their ids: within the list,
   and at the cut, where of the gigs with the score of the last entry the
   ones with the lowest ids are kept. *)
C28_TiesKeepStorageOrder ==
    [][(recommended' # recommended /\ recommended'.status = 200) =>
          \A c \in SeqClients :
             LET list     == recommended'.recommendations
                 returned == {list[i].gig_id : i \in 1..Len(list)}
                 score(g) ==
                    calculate_match_score(
                       users[session[c].user_id], gigs[g],
                       haversine_distance(recommended'.lat, recommended'.lng,
                                          gigs[g].location_lat, gigs[g].location_lng))
             IN  /\ \A i, j \in 1..Len(list) :
                       (i < j /\ list[i].match_score = list[j].match_score)
                       => list[i].gig_id < list[j].gig_id
                 /\ \A g \in GigIds \ returned : \A i \in 1..Len(list) :
                       (/\ gigs[g].status = "open"
                        /\ Abs(gigs[g].location_lat - recommended'.lat) <= 31476
                        /\ score(g) = list[i].match_score)
                       => list[i].gig_id < g
      ]_vars

(* C28 witness: the 20 entries returned hold gigs of equal score next to
   each other and end with a gig whose score a gig left out has too *)
C28_Witness ==
    /\ recommended.status = 200
    /\ Len(recommended.recommendations) = 20
    /\ recommended.recommendations[1].match_score
          = recommended.recommendations[2].match_score
    /\ recommended.recommendations[1].gig_id < recommended.recommendations[2].gig_id
    /\ \E g \in GigIds :
          /\ gigs[g].status = "open"
          /\ gigs[g].location_lat = gigs[recommended.recommendations[20].gig_id].location_lat
          /\ gigs[g].skills_required = <<>>
          /\ g > recommended.recommendations[20].gig_id

(* C29: haversine_distance of a point to itself is 0; the distance from a to
   b is the distance from b to a; and two points one degree of latitude
   apart on one meridian are at the same distance, about 111 km, on every
   meridian. *)
C29_DistanceIsSymmetric ==
    (computed.function = "haversine_distance" /\ computed.done) =>
       /\ (computed.lat1 = computed.lat2 /\ computed.lon1 = computed.lon2)
             => computed.result = 0
       /\ computed.result
             = haversine_distance(computed.lat2, computed.lon2,
                                  computed.lat1, computed.lon1)
       /\ (/\ computed.lon1 = computed.lon2
           /\ Abs(computed.lat2 - computed.lat1) = Degree)
          => /\ \A lon \in Longitudes :
                   computed.result
                      = haversine_distance(computed.lat1, lon, computed.lat2, lon)
             /\ 111000 <= computed.result
             /\ computed.result <= 111400

(* C29 witness: the distance from 30 N 60 E to 31 N 60 E has been computed,
   111.195 km *)
C29_Witness ==
    /\ computed.function = "haversine_distance"
    /\ computed.done
    /\ computed.lat1 = 30 * Degree
    /\ computed.lat2 = 31 * Degree
    /\ computed.lon1 = 60 * Degree
    /\ computed.lon2 = 60 * Degree
    /\ computed.result = 111195

(* C30: the status and the seeker_id of a gig are changed only by a request
   of the gig's provider or of the seeker of an accepted application on it:
   a step of create_contract, sign_contract, complete_contract or
   cancel_contract by a client that is neither leaves them as they were. *)
C30_OnlyPartiesChangeGig ==
    [][\A g \in GigIds :
          (gigs'[g].status # gigs[g].status \/ gigs'[g].seeker_id # gigs[g].seeker_id)
          => \A c \in Clients :
                (\/ \E k \in ContractIds : complete_contract(c, k) \/ cancel_contract(c, k)
                 \/ sign_signed(c)
                 \/ \E u \in UserIds : create_contract(c, g, u))
                => \/ session[c].user_id = gigs[g].provider_id
                   \/ \E a \in ApplicationIds :
                         /\ applications[a].gig_id = g
                         /\ applications[a].status = "accepted"
                         /\ applications[a].seeker_id = session[c].user_id
      ]_vars

(* C31: the contract statuses completed and cancelled are terminal: a
   contract that has reached either keeps its status in every later step of
   a sign, complete or cancel request. *)
C31_CompletedAndCancelledAreTerminal ==
    [][\A k \in ContractIds :
          contracts[k].status \in {"completed", "cancelled"}
          => contracts'[k].status = contracts[k].status]_vars

(* C32: a gig with status completed has status completed after every
   step. *)
C32_CompletedGigStaysCompleted ==
    [][\A g \in GigIds :
          gigs[g].status = "completed" => gigs'[g].status = "completed"]_vars

(* C33: get_recommended_gigs answers 400 Location required only when the
   lat or the lng parameter is absent: a request with both parameters
   supplied and valid, latitude 0 included, is answered with a list. *)
C33_LocationRequiredOnlyWhenAbsent ==
    (/\ recommended # NoRecommendation
     /\ recommended.lat # None
     /\ recommended.lng # None
     /\ validate_coordinates(recommended.lat, recommended.lng))
    => recommended.status = 200

(* C34: only the provider of the gig changes the status of an application
   on it.  A request of an approved user with a status other than accepted
   or rejected is answered 400, one for an unknown application 404, one of a
   user who is not the gig's provider 403 Unauthorized; and every step that
   changes a stored application, a stored gig or the contracts completes a
   request made by the provider of the application's gig with status
   accepted or rejected. *)
C34_OnlyProviderUpdatesApplication ==
    /\ [](\A c \in Clients : \A a \in 1..MaxApplications : \A st \in ApplicationStatuses :
             LET answer == update_application_status_response(c, a, st)
             IN  auth_required(c) = "ok" =>
                    /\ st = "pending" => answer.status = 400
                    /\ (st # "pending" /\ ~application_exists(a))
                          => answer = Error(404, "Application not found")
                    /\ (/\ st # "pending"
                        /\ application_exists(a)
                        /\ gigs[applications[a].gig_id].provider_id # session[c].user_id)
                          => answer = Error(403, "Unauthorized"))
    /\ [][(\/ \E a \in ApplicationIds : applications'[a] # applications[a]
           \/ \E g \in GigIds : gigs'[g] # gigs[g]
           \/ contracts' # contracts)
          => \E c \in Clients :
                /\ req[c].pc = "update_application"
                /\ req'[c].pc = "idle"
                /\ req[c].type \in {"accepted", "rejected"}
                /\ application_exists(req[c].vid)
                /\ req[c].uid = gigs[applications[req[c].vid].gig_id].provider_id]_vars

(* C34 witness: the provider of a gig has rejected an application on it and
   has accepted none, while the session of another approved user, who is not
   the gig's provider, asks to accept a pending application on the same gig
   and is answered Unauthorized *)
C34_Witness ==
    \E c \in Clients : \E a \in ApplicationIds : \E b \in ApplicationIds :
        /\ auth_required(c) = "ok"
        /\ application_exists(a)
        /\ applications[a].status = "pending"
        /\ applications[b].gig_id = applications[a].gig_id
        /\ applications[b].status = "rejected"
        /\ gigs[applications[a].gig_id].provider_id # session[c].user_id
        /\ update_application_status_response(c, a, "accepted") = Error(403, "Unauthorized")
        /\ contracts = <<>>

(* C35: login is answered 200 iff the email is that of a stored user, the
   password matches that user's hash and the user is approved; a step in
   which a session takes a new identity is a login answered 200, and the
   identity is that of the user found, who is approved at that step; a login
   that is not answered 200 leaves every session as it was. *)
C35_LoginIffStoredMatchingApproved ==
    /\ [](\A e \in Emails \cup {NoEmail} :
          \A p \in {AdminPassword, SignupPassword, NoPassword} :
             login_response(e, p).status = 200
                <=> /\ find_user_by_email(e) # 0
                    /\ check_password_hash(users[find_user_by_email(e)].password_hash, p)
                    /\ users[find_user_by_email(e)].is_approved)
    /\ [][session' # session =>
             /\ \A c \in Clients :
                   (session'[c] # session[c] /\ session'[c].user_id # 0)
                   => /\ session'[c].user_id \in UserIds
                      /\ users[session'[c].user_id].is_approved
                      /\ session'[c].user_role = users[session'[c].user_id].role
                      /\ \E p \in {AdminPassword, SignupPassword} :
                            check_password_hash(
                               users[session'[c].user_id].password_hash, p)
             /\ \A c \in Clients : \A e \in Emails :
                \A p \in {AdminPassword, SignupPassword} :
                   login(c, e, p) => login_response(e, p).status = 200]_vars

(* C35 witness: a member has logged in after the approval; the approval has
   been revoked since, so that the same login is now answered 403, and the
   other client has no identity; a login with the admin's email and the
   member's password is answered 401 *)
C35_Witness ==
    \E c \in Clients : \E d \in Clients :
        /\ session[c].user_id \in UserIds
        /\ users[session[c].user_id].role = "user"
        /\ ~users[session[c].user_id].is_approved
        /\ login_response(users[session[c].user_id].email, SignupPassword)
              = Error(403, "Account pending admin approval")
        /\ login_response(AdminEmail, SignupPassword) = Error(401, "Invalid credentials")
        /\ session[d].user_id = 0

(* C36: a user that was not seeded has verified_email (verified_phone) set
   only if a code of type email (phone) issued to that user is marked used
   and was consumed by a verify request answered 200; and every step that
   sets a verification flag is the last step of such a verify request of
   that user and type. *)
C36_FlagOnlyByVerifiedCode ==
    /\ [](\A u \in UserIds : \A t \in VerificationTypes :
             (users[u].email # AdminEmail /\ is_verified(u, t))
             => \E i \in CodeIds : /\ codes[i].user_id = u
                                   /\ codes[i].type = t
                                   /\ codes[i].used
                                   /\ successes[i] > 0)
    /\ [][users' # users =>
             \A u \in UserIds :
                /\ (~users[u].verified_email /\ users'[u].verified_email)
                      => \E c \in Clients : /\ req[c].pc = "verify_flag"
                                            /\ req'[c].pc = "idle"
                                            /\ req[c].uid = u
                                            /\ req[c].type = "email"
                /\ (~users[u].verified_phone /\ users'[u].verified_phone)
                      => \E c \in Clients : /\ req[c].pc = "verify_flag"
                                            /\ req'[c].pc = "idle"
                                            /\ req[c].uid = u
                                            /\ req[c].type = "phone"]_vars

(* C36 witness: a member has verified the email with the code of the signup
   and not the phone, and has since updated the profile and had the
   password reset *)
C36_Witness ==
    \E u \in UserIds :
        /\ users[u].email # AdminEmail
        /\ users[u].is_approved
        /\ users[u].verified_email
        /\ ~users[u].verified_phone
        /\ users[u].skills # <<>>
        /\ check_password_hash(users[u].password_hash, "newpass1")

(* C37: the step that ends an update_application_status request either
   changes no application, gig or contract (the request has failed and was
   rolled back), or, for status accepted, sets the application to accepted,
   every other application on the gig to rejected, the gig to assigned with
   the application's seeker, and appends one contract, pending and without
   signatures, between the gig's provider and that seeker, leaving all other
   rows as they were, or, for status rejected, sets that application to
   rejected and changes nothing else. *)
C37_AcceptIsAllOrNothing ==
    [][\A c \in Clients :
          (req[c].pc = "update_application" /\ req'[c].pc = "idle") =>
             LET a == req[c].vid
                 g == applications[a].gig_id
             IN  \/ /\ applications' = applications
                    /\ gigs' = gigs
                    /\ contracts' = contracts
                 \/ /\ req[c].type = "accepted"
                    /\ Len(applications') = Len(applications)
                    /\ \A b \in ApplicationIds :
                          applications'[b] =
                             IF b = a
                             THEN [applications[b] EXCEPT !.status = "accepted"]
                             ELSE IF applications[b].gig_id = g
                             THEN [applications[b] EXCEPT !.status = "rejected"]
                             ELSE applications[b]
                    /\ Len(gigs') = Len(gigs)
                    /\ \A h \in GigIds :
                          gigs'[h] =
                             IF h = g
                             THEN [gigs[h] EXCEPT !.status = "assigned",
                                                  !.seeker_id = applications[a].seeker_id]
                             ELSE gigs[h]
                    /\ Len(contracts') = Len(contracts) + 1
                    /\ \A k \in ContractIds : contracts'[k] = contracts[k]
                    /\ contracts'[Len(contracts')] =
                          [gig_id |-> g, provider_id |-> gigs[g].provider_id,
                           seeker_id |-> applications[a].seeker_id,
                           provider_signature |-> FALSE, seeker_signature |-> FALSE,
                           status |-> "pending"]
                 \/ /\ req[c].type = "rejected"
                    /\ applications' = [applications EXCEPT ![a].status = "rejected"]
                    /\ gigs' = gigs
                    /\ contracts' = contracts]_vars

(* C37 witness: the provider has accepted one of two applications of
   different seekers on a gig: the other is rejected, the gig is assigned to
   the accepted seeker and the one contract is pending, unsigned, between
   the provider and that seeker *)
C37_Witness ==
    \E a \in ApplicationIds : \E b \in ApplicationIds :
        /\ applications[a].gig_id = applications[b].gig_id
        /\ applications[a].seeker_id # applications[b].seeker_id
        /\ applications[a].status = "accepted"
        /\ applications[b].status = "rejected"
        /\ gigs[applications[a].gig_id].status = "assigned"
        /\ gigs[applications[a].gig_id].seeker_id = applications[a].seeker_id
        /\ contracts = <<NewContractRow(applications[a].gig_id,
                                        gigs[applications[a].gig_id].provider_id,
                                        applications[a].seeker_id)>>

====
